---------------------------- MODULE Spec2Model ----------------------------
(***************************************************************************)
(* Verification model of the AP-calculus verifier                          *)
(* (src/py/verifier/src/verifier/calculus.py).                             *)
(*                                                                         *)
(* Operand texts are real strings.  The computer-algebra library the       *)
(* engines call (parse_expr, simplify, diff, integrate, limit, float) is   *)
(* modelled on the fragment the model's operand catalogue needs: Laurent   *)
(* polynomials with rational coefficients in named symbols, parenthesised  *)
(* sums and their integer powers, applied functions as opaque nodes, and   *)
(* the special values oo, -oo, zoo and nan.                                *)
(***************************************************************************)
EXTENDS Integers, Sequences, FiniteSets, TLC

(***************************************************************************)
(* Characters and strings                                                  *)
(***************************************************************************)
Char(s, i) == SubSeq(s, i, i)

Digits == {"0", "1", "2", "3", "4", "5", "6", "7", "8", "9"}

Letters ==
  {"a", "b", "c", "d", "e", "f", "g", "h", "i", "j", "k", "l", "m",
   "n", "o", "p", "q", "r", "s", "t", "u", "v", "w", "x", "y", "z",
   "A", "B", "C", "D", "E", "F", "G", "H", "I", "J", "K", "L", "M",
   "N", "O", "P", "Q", "R", "S", "T", "U", "V", "W", "X", "Y", "Z"}

\* Python's `sub in s`.
Contains(s, sub) ==
  \E i \in 1..(Len(s) - Len(sub) + 1) : SubSeq(s, i, i + Len(sub) - 1) = sub

\* re.compile(r'^[a-zA-Z_][a-zA-Z0-9_]*$').match(name)
SAFE_SYMBOL_PATTERN(name) ==
  /\ Len(name) >= 1
  /\ Char(name, 1) \in Letters \cup {"_"}
  /\ \A i \in 2..Len(name) : Char(name, i) \in Letters \cup Digits \cup {"_"}

SAFE_FUNCTIONS ==
  {"Add", "Mul", "Pow", "Rational", "Integer", "Float",
   "sin", "cos", "tan", "cot", "sec", "csc",
   "asin", "acos", "atan", "acot", "asec", "acsc",
   "sinh", "cosh", "tanh", "coth", "sech", "csch",
   "asinh", "acosh", "atanh", "acoth", "asech", "acsch",
   "exp", "log", "ln", "sqrt", "abs", "sign",
   "factorial", "gamma", "beta",
   "diff", "integrate", "limit", "Derivative", "Integral", "Limit",
   "erf", "erfc", "erfi", "erfinv", "erfcinv",
   "besselj", "bessely", "besseli", "besselk",
   "airyai", "airyaiprime", "airybi", "airybiprime",
   "pi", "E", "I", "oo", "zoo", "nan",
   "And", "Or", "Not", "Xor", "Nand", "Nor",
   "Equivalent", "Implies", "ITE",
   "Eq", "Ne", "Lt", "Le", "Gt", "Ge",
   "Symbol", "Wild", "WildFunction",
   "Function", "Lambda", "Piecewise",
   "Min", "Max", "re", "im", "conjugate",
   "floor", "ceiling", "frac"}

(***************************************************************************)
(* Rational numbers [n, d], d > 0, in lowest terms                         *)
(***************************************************************************)
Abs(n) == IF n < 0 THEN -n ELSE n

RECURSIVE Gcd(_, _)
Gcd(a, b) == IF b = 0 THEN a ELSE Gcd(b, a % b)

Rat(n, d) ==
  LET g == Gcd(Abs(n), Abs(d))
      s == IF d < 0 THEN -1 ELSE 1
  IN  [n |-> (s * n) \div g, d |-> Abs(d) \div g]

RInt(n) == [n |-> n, d |-> 1]
RZero == RInt(0)
ROne == RInt(1)
RAdd(a, b) == Rat(a.n * b.d + b.n * a.d, a.d * b.d)
RNeg(a) == [n |-> -a.n, d |-> a.d]
RMul(a, b) == Rat(a.n * b.n, a.d * b.d)
RInv(a) == Rat(a.d, a.n)
RLeq(a, b) == a.n * b.d <= b.n * a.d
RAbs(a) == [n |-> Abs(a.n), d |-> a.d]

RECURSIVE RPow(_, _)
RPow(a, k) ==
  IF k = 0 THEN ROne
  ELSE IF k < 0 THEN RPow(RInv(a), -k)
  ELSE RMul(a, RPow(a, k - 1))


(***************************************************************************)
(* Symbolic expressions, in the canonical form the CAS builds on            *)
(* construction: a sum of terms, each a rational coefficient times a set   *)
(* of base^exponent factors.  A base is a symbol, a parenthesised sum of   *)
(* two or more terms, an applied Function ("fn"), another node class       *)
(* ("node": a fractional power, an unevaluated Derivative/Integral/Limit)  *)
(* or a named constant ("const").  sp carries the special values.          *)
(***************************************************************************)
EZero == [sp |-> "none", terms |-> {}]

ENum(r) == [sp |-> "none", terms |-> IF r.n = 0 THEN {} ELSE {[c |-> r, f |-> {}]}]

EOne == ENum(ROne)

ESpecial(s) == [sp |-> s, terms |-> {}]

MkBase(kind, name, arg) == [k |-> kind, name |-> name, arg |-> arg]

EBase(b) == [sp |-> "none", terms |-> {[c |-> ROne, f |-> {[b |-> b, e |-> 1]}]}]

ESym(name) == EBase(MkBase("sym", name, EZero))

ETerm(t) == [sp |-> "none", terms |-> IF t.c.n = 0 THEN {} ELSE {t}]

IsNumber(E) == E.sp = "none" /\ \A t \in E.terms : t.f = {}

\* The value of a number expression.
NumVal(E) == IF E.terms = {} THEN RZero ELSE (CHOOSE t \in E.terms : TRUE).c

IsAdd(E) == E.sp = "none" /\ Cardinality(E.terms) >= 2

CoefOf(E, f) ==
  IF \E t \in E.terms : t.f = f THEN (CHOOSE t \in E.terms : t.f = f).c ELSE RZero

\* Special values under addition: nan absorbs, opposite or complex
\* infinities cancel to nan, an infinity absorbs what is finite.
SpAdd(a, b) ==
  IF a = "none" THEN b
  ELSE IF b = "none" THEN a
  ELSE IF a = "nan" \/ b = "nan" THEN "nan"
  ELSE IF a = b /\ a # "zoo" THEN a
  ELSE "nan"

Add(A, B) ==
  LET s == SpAdd(A.sp, B.sp)
      keys == {t.f : t \in A.terms \cup B.terms}
      sum(f) == RAdd(CoefOf(A, f), CoefOf(B, f))
  IN  IF s # "none" THEN ESpecial(s)
      ELSE [sp |-> "none",
            terms |-> {[c |-> sum(f), f |-> f] : f \in {g \in keys : sum(g).n # 0}}]

ExpOf(F, b) ==
  IF \E x \in F : x.b = b THEN (CHOOSE x \in F : x.b = b).e ELSE 0

\* Product of two factor sets: exponents of equal bases add.
FMul(F, G) ==
  LET bases == {x.b : x \in F \cup G}
  IN  {[b |-> b, e |-> ExpOf(F, b) + ExpOf(G, b)] :
         b \in {c \in bases : ExpOf(F, c) + ExpOf(G, c) # 0}}

TMul(s, t) == [c |-> RMul(s.c, t.c), f |-> FMul(s.f, t.f)]

\* A sum of two or more terms enters a product as one parenthesised factor.
AsTerm(E) ==
  IF Cardinality(E.terms) = 1 THEN CHOOSE t \in E.terms : TRUE
  ELSE [c |-> ROne, f |-> {[b |-> MkBase("sum", "", E), e |-> 1]}]

Scale(r, E) ==
  [sp |-> "none",
   terms |-> IF r.n = 0 THEN {} ELSE {[c |-> RMul(r, t.c), f |-> t.f] : t \in E.terms}]

SpNeg(s) == IF s = "oo" THEN "-oo" ELSE IF s = "-oo" THEN "oo" ELSE s

SpMul(A, B) ==
  LET neg(E) == (E.sp = "-oo") \/ (IsNumber(E) /\ NumVal(E).n < 0)
      zero(E) == E.sp = "none" /\ E.terms = {}
      any(s) == A.sp = s \/ B.sp = s
  IN  IF any("nan") \/ zero(A) \/ zero(B) THEN "nan"
      ELSE IF any("zoo") THEN "zoo"
      ELSE IF neg(A) # neg(B) THEN "-oo" ELSE "oo"

\* Mul: a Number times a sum distributes; everything else multiplies
\* term by term with sums kept parenthesised.
Mul(A, B) ==
  IF A.sp # "none" \/ B.sp # "none" THEN ESpecial(SpMul(A, B))
  ELSE IF A.terms = {} \/ B.terms = {} THEN EZero
  ELSE IF IsNumber(A) THEN Scale(NumVal(A), B)
  ELSE IF IsNumber(B) THEN Scale(NumVal(B), A)
  ELSE ETerm(TMul(AsTerm(A), AsTerm(B)))

Neg(A) == IF A.sp # "none" THEN ESpecial(SpNeg(A.sp)) ELSE Scale(RInt(-1), A)

Sub(A, B) == Add(A, Neg(B))

\* Pow with an integer exponent.
Pow(A, k) ==
  IF A.sp # "none" THEN
    (IF k = 0 THEN EOne
     ELSE IF k < 0 THEN (IF A.sp = "nan" THEN A ELSE EZero)
     ELSE IF A.sp = "-oo" /\ k % 2 = 0 THEN ESpecial("oo") ELSE A)
  ELSE IF k = 0 THEN EOne
  ELSE IF A.terms = {} THEN (IF k > 0 THEN EZero ELSE ESpecial("zoo"))
  ELSE IF k = 1 THEN A
  ELSE LET t == AsTerm(A)
       IN  ETerm([c |-> RPow(t.c, k), f |-> {[b |-> x.b, e |-> x.e * k] : x \in t.f}])

IsInteger(E) == IsNumber(E) /\ NumVal(E).d = 1

\* base ** exponent as Python evaluates it on CAS objects.
PowE(A, X) ==
  IF IsInteger(X) THEN Pow(A, NumVal(X).n)
  ELSE IF A.sp # "none" \/ X.sp # "none" THEN ESpecial("nan")
  ELSE EBase(MkBase("node", "Pow", A))

Div(A, B) == Mul(A, Pow(B, -1))

\* Product of two expanded sums, distributed.
ExpandMul(A, B) ==
  IF A.sp # "none" \/ B.sp # "none" THEN Mul(A, B)
  ELSE LET row(s) == [sp |-> "none", terms |-> {TMul(s, t) : t \in B.terms}]
           RECURSIVE rows(_)
           rows(S) == IF S = {} THEN EZero
                      ELSE LET s == CHOOSE s \in S : TRUE
                           IN  Add(row(s), rows(S \ {s}))
       IN  rows(A.terms)

RECURSIVE ExpandPow(_, _)
ExpandPow(A, k) == IF k = 0 THEN EOne ELSE ExpandMul(A, ExpandPow(A, k - 1))

RECURSIVE expand(_)
RECURSIVE ExpandFactors(_)
\* expand(): every positive power of a parenthesised sum is multiplied out.
ExpandFactors(F) ==
  IF F = {} THEN EOne
  ELSE LET x == CHOOSE x \in F : TRUE
           one == IF x.b.k = "sum" /\ x.e > 0 THEN ExpandPow(expand(x.b.arg), x.e)
                  ELSE ETerm([c |-> ROne, f |-> {x}])
       IN  ExpandMul(one, ExpandFactors(F \ {x}))

expand(E) ==
  IF E.sp # "none" \/ E.terms = {} THEN E
  ELSE LET t == CHOOSE t \in E.terms : TRUE
       IN  Add(Scale(t.c, ExpandFactors(t.f)),
               expand([sp |-> "none", terms |-> E.terms \ {t}]))

\* simplify(): on this fragment, the expanded canonical form.  Only two
\* things are read from a simplified form: whether a difference is zero,
\* and its value at a point.
simplify(E) == expand(E)

RECURSIVE free_symbols(_)
free_symbols(E) ==
  UNION {UNION {IF x.b.k = "sym" THEN {x.b.name}
                ELSE IF x.b.k = "const" THEN {}
                ELSE free_symbols(x.b.arg) : x \in t.f} : t \in E.terms}

\* {func.func.__name__ for func in parsed.atoms(sp.Function)}
RECURSIVE FunctionAtoms(_)
FunctionAtoms(E) ==
  UNION {UNION {IF x.b.k \in {"sym", "const"} THEN {}
                ELSE (IF x.b.k = "fn" THEN {x.b.name} ELSE {})
                       \cup FunctionAtoms(x.b.arg) : x \in t.f} : t \in E.terms}

\* {str(symbol) for symbol in parsed.atoms(sp.Symbol)}
SymbolAtoms(E) == free_symbols(E)

(***************************************************************************)
(* parse_expr(text, transformations=SAFE_TRANSFORMATIONS): the library     *)
(* tokenizes the text as Python, rewrites undefined names into Symbol(..)  *)
(* or Function(..) and ^ into **, and evaluates the result in the CAS      *)
(* namespace.  Names that are defined there are simply called.  Products   *)
(* are written with * in the operand catalogue (implicit multiplication    *)
(* is not modelled).                                                       *)
(***************************************************************************)
RECURSIVE ScanEnd(_, _, _)
\* The last index of the run of characters of class C that starts at i.
ScanEnd(s, i, C) ==
  IF i <= Len(s) /\ Char(s, i) \in C THEN ScanEnd(s, i + 1, C) ELSE i - 1

OpChars == {"+", "-", "*", "/", "^", "(", ")", "@", ".", ","}

Tok(ty, s) == [ty |-> ty, s |-> s]

RECURSIVE Tokens(_, _)
Tokens(s, i) ==
  IF i > Len(s) THEN << >>
  ELSE LET c == Char(s, i) IN
    IF c = " " THEN Tokens(s, i + 1)
    ELSE IF c \in Digits THEN
      LET j == ScanEnd(s, i, Digits)
          k == IF j + 2 <= Len(s) /\ Char(s, j + 1) = "." /\ Char(s, j + 2) \in Digits
               THEN ScanEnd(s, j + 2, Digits) ELSE j
      IN  <<Tok("NUM", SubSeq(s, i, k))>> \o Tokens(s, k + 1)
    ELSE IF c \in Letters \cup {"_"} THEN
      LET j == ScanEnd(s, i, Letters \cup Digits \cup {"_"})
      IN  <<Tok("NAME", SubSeq(s, i, j))>> \o Tokens(s, j + 1)
    ELSE IF c = "'" THEN
      LET closing == {j \in (i + 1)..Len(s) : Char(s, j) = "'"} IN
        IF closing = {} THEN <<Tok("ERR", "'")>>
        ELSE LET j == CHOOSE j \in closing : \A m \in closing : j <= m
             IN  <<Tok("STR", SubSeq(s, i + 1, j - 1))>> \o Tokens(s, j + 1)
    ELSE IF c \in OpChars THEN <<Tok("OP", c)>> \o Tokens(s, i + 1)
    ELSE <<Tok("ERR", c)>>

DigitVal(c) ==
  CASE c = "0" -> 0 [] c = "1" -> 1 [] c = "2" -> 2 [] c = "3" -> 3 [] c = "4" -> 4
    [] c = "5" -> 5 [] c = "6" -> 6 [] c = "7" -> 7 [] c = "8" -> 8 [] c = "9" -> 9

RECURSIVE IntOf(_)
IntOf(s) == IF s = "" THEN 0 ELSE 10 * IntOf(SubSeq(s, 1, Len(s) - 1)) + DigitVal(Char(s, Len(s)))

RECURSIVE Pow10(_)
Pow10(k) == IF k = 0 THEN 1 ELSE 10 * Pow10(k - 1)

\* The value of a NUMBER token: an Integer, or a decimal Float.
NumberOf(s) ==
  LET dots == {i \in 1..Len(s) : Char(s, i) = "."} IN
    IF dots = {} THEN RInt(IntOf(s))
    ELSE LET p == CHOOSE i \in dots : TRUE
             frac == SubSeq(s, p + 1, Len(s))
         IN  Rat(IntOf(SubSeq(s, 1, p - 1)) * Pow10(Len(frac)) + IntOf(frac),
                 Pow10(Len(frac)))

\* What evaluating a piece of the text yields: a CAS expression, a Python
\* string, some other Python object, or a raised exception.
VExpr(E) == [t |-> "expr", e |-> E, exc |-> "", msg |-> ""]
VStr(s) == [t |-> "str", e |-> EZero, exc |-> "", msg |-> s]
VObj(what) == [t |-> "pyobj", e |-> EZero, exc |-> what, msg |-> ""]
VRaise(exc, msg) == [t |-> "raise", e |-> EZero, exc |-> exc, msg |-> msg]

\* Function classes that `from sympy import *` puts in the namespace
\* (those the operand catalogue can name).
FunctionClasses ==
  {"sin", "cos", "tan", "exp", "log", "sign", "gamma", "floor", "ceiling",
   "Abs", "erf", "factorial"}

\* Plain callables of the namespace: they run and return their result.
NamespaceCallables == {"expand", "simplify"}

\* The builtin functions the library adds to the namespace.
Builtins == {"eval", "open", "__import__", "abs"}

NamedConstants == {"pi", "E", "I"}

SpecialNames == {"oo", "zoo", "nan"}

\* Other objects of the namespace that are not expressions.
NamespaceObjects == {"S", "N", "O", "Q"}

\* sympify() of a Python string handed to a CAS callable.
SympifyStr(s) ==
  IF SAFE_SYMBOL_PATTERN(s) THEN VExpr(ESym(s))
  ELSE VRaise("SympifyError", "Sympify of expression '" \o s \o "' failed")

\* Python's eval(source) on a string literal, run in the namespace as is:
\* no name of the source is rewritten into a Symbol.
EvalString(s) ==
  IF s \in SpecialNames THEN VExpr(ESpecial(s))
  ELSE IF s \in NamedConstants THEN VExpr(EBase(MkBase("const", s, EZero)))
  ELSE IF s # "" /\ \A i \in 1..Len(s) : Char(s, i) \in Digits THEN VObj("int")
  ELSE IF s \in {"exit()", "quit()"} THEN VRaise("SystemExit", "None")
  ELSE VRaise("NameError", "name '" \o s \o "' is not defined")

\* Modules __import__ can load.
Modules == {"os", "sys"}

ApplyFn(name, E) == VExpr(EBase(MkBase("fn", name, E)))

\* name(arg) evaluated in the namespace.
Call(name, a) ==
  IF a.t = "raise" THEN a
  ELSE IF name = "eval" THEN
    (IF a.t = "str" THEN EvalString(a.msg)
     ELSE VRaise("TypeError", "eval() arg 1 must be a string, bytes or code object"))
  ELSE IF name = "open" THEN
    (IF a.t = "str"
     THEN VRaise("FileNotFoundError", "[Errno 2] No such file or directory: '" \o a.msg \o "'")
     ELSE VRaise("TypeError", "expected str, bytes or os.PathLike object"))
  ELSE IF name = "__import__" THEN
    (IF a.t # "str" THEN VRaise("TypeError", "__import__() argument 1 must be str")
     ELSE IF a.msg \in Modules THEN VObj("module " \o a.msg)
     ELSE VRaise("ModuleNotFoundError", "No module named '" \o a.msg \o "'"))
  ELSE IF name = "Symbol" THEN
    (IF a.t = "str" THEN VExpr(ESym(a.msg))
     ELSE VRaise("TypeError", "name should be a string"))
  ELSE IF name \in NamespaceObjects \cup NamedConstants \cup SpecialNames THEN
    VRaise("TypeError", "object is not callable")
  ELSE LET arg == IF a.t = "str" THEN SympifyStr(a.msg) ELSE a IN
    IF arg.t = "raise" THEN arg
    ELSE IF arg.t # "expr" THEN VRaise("SympifyError", "cannot sympify the argument")
    ELSE IF name \in NamespaceCallables THEN VExpr(expand(arg.e))
    ELSE IF name = "abs" THEN ApplyFn("Abs", arg.e)
    ELSE IF name = "ln" THEN ApplyFn("log", arg.e)
    ELSE IF name = "sqrt" THEN VExpr(EBase(MkBase("node", "Pow", arg.e)))
    ELSE ApplyFn(name, arg.e)

\* A bare name: a namespace object if it is defined, else Symbol(name).
Name(n) ==
  IF n \in SpecialNames THEN VExpr(ESpecial(n))
  ELSE IF n \in NamedConstants THEN VExpr(EBase(MkBase("const", n, EZero)))
  ELSE IF n \in FunctionClasses \cup NamespaceCallables \cup Builtins
               \cup NamespaceObjects \cup {"Symbol", "ln", "sqrt"}
    THEN VObj("callable")
  ELSE VExpr(ESym(n))

\* A binary operator on two evaluated operands (Python evaluates the left
\* operand first).
BinOp(op, a, b) ==
  IF a.t = "raise" THEN a
  ELSE IF b.t = "raise" THEN b
  ELSE IF a.t # "expr" \/ b.t # "expr" \/ op = "@" THEN
    VRaise("TypeError", "unsupported operand type(s) for " \o op)
  ELSE VExpr(CASE op = "+" -> Add(a.e, b.e)
               [] op = "-" -> Sub(a.e, b.e)
               [] op = "*" -> Mul(a.e, b.e)
               [] op = "/" -> Div(a.e, b.e)
               [] op = "^" -> PowE(a.e, b.e))

Negate(a) ==
  IF a.t = "raise" THEN a
  ELSE IF a.t # "expr" THEN VRaise("TypeError", "bad operand type for unary -")
  ELSE VExpr(Neg(a.e))

Attribute(a, attr) ==
  IF a.t = "raise" THEN a
  ELSE IF a.t = "pyobj" THEN
    (IF a.exc = "module sys" /\ attr = "exit" THEN VObj("sys.exit") ELSE VObj("attribute"))
  ELSE VRaise("AttributeError", "object has no attribute '" \o attr \o "'")

\* primary(arg) where primary is not a bare name: a parenthesised factor
\* multiplies (implicit multiplication), any other object is called.
CallValue(a, arg) ==
  IF a.t = "raise" THEN a
  ELSE IF arg.t = "raise" THEN arg
  ELSE IF a.t = "pyobj" /\ a.exc = "sys.exit" THEN VRaise("SystemExit", "None")
  ELSE IF a.t = "expr" /\ arg.t = "expr" THEN VExpr(Mul(a.e, arg.e))
  ELSE VRaise("TypeError", "object is not callable")

PFail == [ok |-> FALSE, pos |-> 0, v |-> VObj("none")]
POk(pos, v) == [ok |-> TRUE, pos |-> pos, v |-> v]
IsOp(T, i, ops) == i <= Len(T) /\ T[i].ty = "OP" /\ T[i].s \in ops

RECURSIVE Parse(_, _, _, _)
\* The expression grammar, one rule per level; r is the operand already
\* parsed when a rule continues one (and the start position otherwise).
\*   a_expr:   m_expr (('+' | '-') m_expr)*
\*   m_expr:   u_expr (('*' | '/' | '@') u_expr)*
\*   u_expr:   ('-' | '+') u_expr | power
\*   power:    primary ['**' u_expr]        (^ has been rewritten to **)
\*   primary:  atom ('.' NAME | '(' [a_expr] ')')*
\*   atom:     NUMBER | STRING | NAME | NAME '(' [a_expr] ')' | '(' a_expr ')'
Parse(rule, T, i, r) ==
  CASE rule = "a_expr" -> Parse("a_loop", T, i, Parse("m_expr", T, i, r))
    [] rule = "a_loop" ->
         IF r.ok /\ IsOp(T, r.pos, {"+", "-"}) THEN
           LET r2 == Parse("m_expr", T, r.pos + 1, r) IN
             IF ~r2.ok THEN PFail
             ELSE Parse("a_loop", T, i, POk(r2.pos, BinOp(T[r.pos].s, r.v, r2.v)))
         ELSE r
    [] rule = "m_expr" -> Parse("m_loop", T, i, Parse("u_expr", T, i, r))
    [] rule = "m_loop" ->
         IF r.ok /\ IsOp(T, r.pos, {"*", "/", "@"}) THEN
           LET r2 == Parse("u_expr", T, r.pos + 1, r) IN
             IF ~r2.ok THEN PFail
             ELSE Parse("m_loop", T, i, POk(r2.pos, BinOp(T[r.pos].s, r.v, r2.v)))
         ELSE r
    [] rule = "u_expr" ->
         IF IsOp(T, i, {"-", "+"}) THEN
           LET r2 == Parse("u_expr", T, i + 1, r) IN
             IF ~r2.ok THEN PFail
             ELSE POk(r2.pos, IF T[i].s = "-" THEN Negate(r2.v) ELSE r2.v)
         ELSE
           LET b == Parse("primary", T, i, Parse("atom", T, i, r)) IN
             IF b.ok /\ IsOp(T, b.pos, {"^"}) THEN
               LET r2 == Parse("u_expr", T, b.pos + 1, r) IN
                 IF ~r2.ok THEN PFail ELSE POk(r2.pos, BinOp("^", b.v, r2.v))
             ELSE b
    [] rule = "primary" ->
         IF r.ok /\ IsOp(T, r.pos, {"."}) THEN
           IF r.pos + 1 <= Len(T) /\ T[r.pos + 1].ty = "NAME"
           THEN Parse("primary", T, i, POk(r.pos + 2, Attribute(r.v, T[r.pos + 1].s)))
           ELSE PFail
         ELSE IF r.ok /\ IsOp(T, r.pos, {"("}) THEN
           IF IsOp(T, r.pos + 1, {")"})
           THEN Parse("primary", T, i, POk(r.pos + 2, CallValue(r.v, VObj("noargs"))))
           ELSE LET a == Parse("a_expr", T, r.pos + 1, r) IN
             IF a.ok /\ IsOp(T, a.pos, {")"})
             THEN Parse("primary", T, i, POk(a.pos + 1, CallValue(r.v, a.v)))
             ELSE PFail
         ELSE r
    [] rule = "atom" ->
         IF i > Len(T) THEN PFail
         ELSE IF T[i].ty = "NUM" THEN POk(i + 1, VExpr(ENum(NumberOf(T[i].s))))
         ELSE IF T[i].ty = "STR" THEN POk(i + 1, VStr(T[i].s))
         ELSE IF T[i].ty = "NAME" THEN
           (IF IsOp(T, i + 1, {"("}) THEN
              (IF IsOp(T, i + 2, {")"}) THEN POk(i + 3, Call(T[i].s, VObj("noargs")))
               ELSE LET a == Parse("a_expr", T, i + 2, r) IN
                 IF a.ok /\ IsOp(T, a.pos, {")"}) THEN POk(a.pos + 1, Call(T[i].s, a.v))
                 ELSE PFail)
            ELSE POk(i + 1, Name(T[i].s)))
         ELSE IF IsOp(T, i, {"("}) THEN
           LET a == Parse("a_expr", T, i + 1, r) IN
             IF a.ok /\ IsOp(T, a.pos, {")"}) THEN POk(a.pos + 1, a.v) ELSE PFail
         ELSE PFail

\* parse_expr: the evaluated object, or the exception raised.  The whole
\* text is compiled before any of it runs, so a syntax error wins.
Compiled(T, r) ==
  IF (\E i \in 1..Len(T) : T[i].ty = "ERR") \/ ~r.ok \/ r.pos # Len(T) + 1
  THEN VRaise("SyntaxError", "invalid syntax")
  ELSE r.v
Tokenized(T) == Compiled(T, Parse("a_expr", T, 1, PFail))
parse_expr(text) == Tokenized(Tokens(text, 1))

(***************************************************************************)
(* _safe_parse                                                             *)
(***************************************************************************)
SPOk(E) == [st |-> "ok", e |-> E, exc |-> "", msg |-> ""]
SPRaise(exc, msg) == [st |-> "raise", e |-> EZero, exc |-> exc, msg |-> msg]

\* The exception classes that derive from BaseException only; `except
\* Exception` does not catch them.
BaseOnlyExceptions == {"SystemExit", "KeyboardInterrupt", "GeneratorExit"}
IsException(exc) == exc \notin BaseOnlyExceptions

\* The function audit: the application nodes whose name is not allowlisted.
\* Variant: the function audit finds nothing.
UnsafeFunctionsUnaudited(E) == {}
UnsafeFunctions(E) == {n \in FunctionAtoms(E) : n \notin SAFE_FUNCTIONS}

\* The symbol audit: the symbols whose name does not match the pattern.
UnsafeSymbols(E) == {n \in SymbolAtoms(E) : ~SAFE_SYMBOL_PATTERN(n)}

\* The audits of the try block on what parse_expr returned or raised.
\* (Operands of the catalogue carry at most one offending name, so the
\* name the audit loop meets first is determined.)
SafeParseAudit(parsed) ==
  IF parsed.t = "raise" THEN parsed
  ELSE IF parsed.t # "expr" THEN
    VRaise("AttributeError", "object has no attribute 'atoms'")
  ELSE IF UnsafeFunctions(parsed.e) # {} THEN
    VRaise("ValueError", "Unsafe function '"
                         \o (CHOOSE n \in UnsafeFunctions(parsed.e) : TRUE)
                         \o "' not in allowlist")
  ELSE IF UnsafeSymbols(parsed.e) # {} THEN
    VRaise("ValueError", "Unsafe symbol '"
                         \o (CHOOSE n \in UnsafeSymbols(parsed.e) : TRUE)
                         \o "' not in allowlist")
  ELSE parsed

\* The body of the try block: the parsed expression, or what was raised.
SafeParseTry(expr_str) == SafeParseAudit(parse_expr(expr_str))

\* The except clause: every exception of the try block, the audit's own
\* ValueError included, is re-raised under a message picked from the text.
SafeParseExcept(expr_str, e) ==
  IF Contains(expr_str, "eval") \/ Contains(expr_str, "__import__")
     \/ Contains(expr_str, "open")
  THEN SPRaise("ValueError", "Unsafe function detected in expression '" \o expr_str \o "'")
  ELSE IF Contains(expr_str, "@") \/ Contains(expr_str, ".") \/ Contains(expr_str, "-")
  THEN SPRaise("ValueError", "Unsafe symbol pattern in expression '" \o expr_str \o "'")
  ELSE SPRaise("ValueError", "Failed to parse expression '" \o expr_str \o "': " \o e.msg)

\* try/except: an exception deriving from Exception goes through the
\* except clause, any other one propagates as it is.
SafeParseHandle(expr_str, r) ==
  IF r.t # "raise" THEN SPOk(r.e)
  ELSE IF IsException(r.exc) THEN SafeParseExcept(expr_str, r)
  ELSE SPRaise(r.exc, r.msg)

_safe_parse(expr_str) == SafeParseHandle(expr_str, SafeParseTry(expr_str))

(***************************************************************************)
(* The symbolic operations the engines call.  They are computed on the     *)
(* fragment of the operand catalogue: Laurent polynomials with rational    *)
(* coefficients, their products and integer powers, and the special        *)
(* values.  Anything else is carried as an unevaluated node.               *)
(***************************************************************************)
VarBase(x) == MkBase("sym", x, EZero)
Opaque(kind, E) == EBase(MkBase("node", kind, E))
SignOf(r) == IF r.n > 0 THEN 1 ELSE IF r.n < 0 THEN -1 ELSE 0
Infinity(sign) == IF sign > 0 THEN ESpecial("oo") ELSE ESpecial("-oo")
Parity(k) == IF k % 2 = 0 THEN 1 ELSE -1

RECURSIVE subs(_, _)
RECURSIVE SubsFactors(_, _)
\* expr.subs(point): env maps symbol names to numbers.
SubsFactors(F, env) ==
  IF F = {} THEN EOne
  ELSE LET x == CHOOSE x \in F : TRUE
           B == IF x.b.k = "sym"
                  THEN (IF x.b.name \in DOMAIN env THEN ENum(env[x.b.name]) ELSE EBase(x.b))
                ELSE IF x.b.k = "const" THEN EBase(x.b)
                ELSE IF x.b.k = "sum" THEN subs(x.b.arg, env)
                ELSE EBase(MkBase(x.b.k, x.b.name, subs(x.b.arg, env)))
       IN  Mul(Pow(B, x.e), SubsFactors(F \ {x}, env))

subs(E, env) ==
  IF E.sp # "none" \/ E.terms = {} THEN E
  ELSE LET t == CHOOSE t \in E.terms : TRUE
       IN  Add(Mul(ENum(t.c), SubsFactors(t.f, env)),
               subs([sp |-> "none", terms |-> E.terms \ {t}], env))

\* float(e): a finite value, nan, an infinity, or TypeError (complex
\* infinity, or something that is not a number).
FOk(v) == [k |-> "ok", v |-> v]
FSpecial(k) == [k |-> k, v |-> RZero]
float(E) ==
  IF E.sp = "nan" THEN FSpecial("nan")
  ELSE IF E.sp = "oo" THEN FSpecial("inf")
  ELSE IF E.sp = "-oo" THEN FSpecial("-inf")
  ELSE IF E.sp = "zoo" THEN FSpecial("TypeError")
  ELSE IF IsNumber(E) THEN FOk(NumVal(E))
  ELSE FSpecial("TypeError")

RECURSIVE diff(_, _)
RECURSIVE DiffFactors(_, _, _)
\* The product rule over the factors S of the factor set F.
DiffFactors(F, S, x) ==
  IF S = {} THEN EZero
  ELSE LET g == CHOOSE g \in S : TRUE
           rest == (F \ {g}) \cup (IF g.e = 1 THEN {} ELSE {[b |-> g.b, e |-> g.e - 1]})
           dbase == IF g.b.k = "sym" THEN (IF g.b.name = x THEN EOne ELSE EZero)
                    ELSE IF g.b.k = "const" THEN EZero
                    ELSE IF g.b.k = "sum" THEN diff(g.b.arg, x)
                    ELSE IF x \in free_symbols(g.b.arg) THEN Opaque("Derivative", EBase(g.b))
                    ELSE EZero
       IN  Add(Mul(ETerm([c |-> RInt(g.e), f |-> rest]), dbase),
               DiffFactors(F, S \ {g}, x))

\* sp.diff(expr, var)
diff(E, x) ==
  IF E.sp # "none" \/ E.terms = {} THEN EZero
  ELSE LET t == CHOOSE t \in E.terms : TRUE
       IN  Add(Mul(ENum(t.c), DiffFactors(t.f, t.f, x)),
               diff([sp |-> "none", terms |-> E.terms \ {t}], x))

RECURSIVE IntegrateTerms(_, _)
IntegrateTerms(T, x) ==
  IF T = {} THEN EZero
  ELSE LET t == CHOOSE t \in T : TRUE
           k == ExpOf(t.f, VarBase(x))
           rest == {g \in t.f : g.b # VarBase(x)}
           one == IF \E g \in rest : g.b.k # "const" /\ x \in free_symbols(EBase(g.b))
                    THEN Opaque("Integral", ETerm(t))
                  ELSE IF k = -1
                    THEN Mul(ETerm([c |-> t.c, f |-> rest]),
                             EBase(MkBase("fn", "log", ESym(x))))
                  ELSE ETerm([c |-> RMul(t.c, Rat(1, k + 1)),
                              f |-> rest \cup {[b |-> VarBase(x), e |-> k + 1]}])
       IN  Add(one, IntegrateTerms(T \ {t}, x))

\* sp.integrate(expr, var), term by term on the expanded integrand.
integrate(E, x) ==
  IF E.sp # "none" THEN Opaque("Integral", E)
  ELSE IntegrateTerms(expand(E).terms, x)

\* The exponents of x in a Laurent polynomial in x alone.
XExps(X, x) == {ExpOf(t.f, VarBase(x)) : t \in X.terms}
IsLaurent(X, x) == X.sp = "none" /\ \A t \in X.terms : \A g \in t.f : g.b = VarBase(x)
LeadCoef(X, x, k) == (CHOOSE t \in X.terms : ExpOf(t.f, VarBase(x)) = k).c
MinOf(S) == CHOOSE k \in S : \A m \in S : k <= m
MaxOf(S) == CHOOSE k \in S : \A m \in S : k >= m

\* The limit of the expanded form X of E, a Laurent polynomial in x.
LimitExpanded(E, X, x, z0, dir) ==
  IF ~IsLaurent(X, x) \/ ~(IsNumber(z0) \/ z0.sp \in {"oo", "-oo"}) THEN
    VExpr(Opaque("Limit", E))
  ELSE IF X.terms = {} THEN VExpr(EZero)
  ELSE IF z0.sp = "none" THEN
    LET a == NumVal(z0)
        k == MinOf(XExps(X, x))
    IN  IF a.n # 0 \/ k >= 0 THEN VExpr(subs(X, [n \in {x} |-> a]))
        ELSE LET s == SignOf(LeadCoef(X, x, k))
             IN  VExpr(Infinity(IF dir = "-" THEN s * Parity(k) ELSE s))
  ELSE
    LET k == MaxOf(XExps(X, x))
        s == SignOf(LeadCoef(X, x, k))
    IN  IF k > 0 THEN VExpr(Infinity(IF z0.sp = "-oo" THEN s * Parity(k) ELSE s))
        ELSE IF k = 0 THEN VExpr(ENum(LeadCoef(X, x, 0)))
        ELSE VExpr(EZero)

\* limit(e, z, z0, dir): the library's default dir is "+".
limit(E, x, z0, dir) ==
  IF z0.sp = "zoo" THEN
    VRaise("NotImplementedError", "Limits at complex infinity are not implemented")
  ELSE IF x \in free_symbols(z0) THEN
    VRaise("NotImplementedError", "Limits approaching a variable point are not supported")
  ELSE IF E = ESym(x) THEN VExpr(z0)
  ELSE IF x \notin free_symbols(E) THEN VExpr(E)
  ELSE IF z0.sp = "nan" THEN VExpr(ESpecial("nan"))
  ELSE LimitExpanded(E, expand(E), x, z0, dir)

TermSymbols(t) == free_symbols(ETerm(t))

\* Variant: nothing is stripped.
_remove_constants_none(expr, var) == expr

\* _remove_constants: only the summands of a top-level sum are inspected.
_remove_constants(expr, var) ==
  IF IsAdd(expr) THEN
    LET terms_with_var == {t \in expr.terms : var \in TermSymbols(t)} IN
      IF terms_with_var # {} THEN [sp |-> "none", terms |-> terms_with_var]
      ELSE EZero
  ELSE IF var \in free_symbols(expr) THEN expr
  ELSE EZero

(***************************************************************************)
(* str(expr).  Summands are printed by descending degree, a product as    *)
(* numerator/denominator; the order among summands of equal degree, and    *)
(* the decimal form of a Float, are not modelled (a Float prints as the    *)
(* fraction it equals).                                                    *)
(***************************************************************************)
DigitChars == "0123456789"

RECURSIVE IntStr(_)
IntStr(n) ==
  IF n < 0 THEN "-" \o IntStr(-n)
  ELSE IF n < 10 THEN SubSeq(DigitChars, n + 1, n + 1)
  ELSE IntStr(n \div 10) \o SubSeq(DigitChars, (n % 10) + 1, (n % 10) + 1)

RatStr(r) == IF r.d = 1 THEN IntStr(r.n) ELSE IntStr(r.n) \o "/" \o IntStr(r.d)

RECURSIVE DegreeOf(_)
DegreeOf(F) ==
  IF F = {} THEN 0
  ELSE LET x == CHOOSE x \in F : TRUE IN x.e + DegreeOf(F \ {x})

RECURSIVE str(_)
RECURSIVE FactorsStr(_, _)
RECURSIVE TermsStr(_, _, _)
\* The factors F joined by "*", their exponents multiplied by sign s.
FactorsStr(F, s) ==
  LET x == CHOOSE x \in F : TRUE
      base == IF x.b.k \in {"sym", "const"} THEN x.b.name
              ELSE (IF x.b.k = "sum" THEN "(" ELSE x.b.name \o "(")
                   \o str(x.b.arg) \o ")"
      one == base \o (IF s * x.e = 1 THEN "" ELSE "**" \o IntStr(s * x.e))
  IN  one \o (IF F \ {x} = {} THEN "" ELSE "*" \o FactorsStr(F \ {x}, s))

\* The numerator n * P of a summand.
NumeratorStr(n, P) ==
  IF P = {} THEN IntStr(n)
  ELSE (IF n = 1 THEN "" ELSE IntStr(n) \o "*") \o FactorsStr(P, 1)

\* Its denominator d * N, in parentheses unless it is a single factor.
DenominatorStr(d, N, bare) ==
  IF N = {} THEN (IF d = 1 THEN "" ELSE "/" \o IntStr(d))
  ELSE (IF bare THEN "/" ELSE "/(")
       \o (IF d = 1 THEN "" ELSE IntStr(d) \o "*")
       \o FactorsStr(N, -1)
       \o (IF bare THEN "" ELSE ")")

\* A product n * P over d * N, printed as numerator/denominator.
FractionStr(n, d, P, N) ==
  NumeratorStr(n, P) \o DenominatorStr(d, N, d = 1 /\ Cardinality(N) = 1)

\* A summand without its sign.
TermStr(t) ==
  FractionStr(Abs(t.c.n), t.c.d, {g \in t.f : g.e > 0}, {g \in t.f : g.e < 0})

SignStr(t, first) ==
  IF first THEN (IF t.c.n < 0 THEN "-" ELSE "")
  ELSE (IF t.c.n < 0 THEN " - " ELSE " + ")

\* The summand printed next: the one of highest degree, or the number when
\* the sum prints number first.
NextTerm(T, numberfirst) ==
  IF numberfirst THEN CHOOSE t \in T : t.f = {}
  ELSE CHOOSE t \in T : \A u \in T : DegreeOf(t.f) >= DegreeOf(u.f)

TermsTail(T, t, first) ==
  SignStr(t, first) \o TermStr(t)
  \o (IF T \ {t} = {} THEN "" ELSE TermsStr(T \ {t}, FALSE, FALSE))

TermsStr(T, first, numberfirst) == TermsTail(T, NextTerm(T, numberfirst), first)

\* as_ordered_terms' special case: a positive number plus a negative
\* multiple of one factor prints with the number first (1 - x).
NumberFirst(T) ==
  /\ Cardinality(T) = 2
  /\ \E t \in T : t.f = {} /\ t.c.n > 0
  /\ \E t \in T : Cardinality(t.f) = 1 /\ t.c.n < 0

str(E) ==
  IF E.sp # "none" THEN E.sp
  ELSE IF E.terms = {} THEN "0"
  ELSE TermsStr(E.terms, TRUE, NumberFirst(E.terms))

(***************************************************************************)
(* The process-wide random generator.  Its state is the stream of values   *)
(* it will return, kept as a cyclic tape; a draw returns the head and      *)
(* rotates the tape.                                                       *)
(***************************************************************************)
RngPeriod == 2

\* Values np.random.uniform(-10, 10) can return.
SampleValues == {RInt(0), RInt(1), RInt(-2)}

Tapes == [1..RngPeriod -> SampleValues]

\* The values a freshly seeded generator returns start at a place the seed
\* decides.
SeedStream == <<RInt(1), RInt(-2), RInt(0)>>

\* Variant: seeding leaves the state of the generator as it was.
np_random_seed_ignored(seed, tape) == tape

\* np.random.seed(seed): the state becomes the one the seed decides,
\* whatever it was.
np_random_seed(seed, tape) ==
  [i \in 1..RngPeriod |-> SeedStream[((seed + i) % Len(SeedStream)) + 1]]

\* The first n values the generator returns from state tape.
Draws(tape, n) == [i \in 1..n |-> tape[((i - 1) % Len(tape)) + 1]]

\* The generator's state after n draws.
Advance(tape, n) == [i \in 1..Len(tape) |-> tape[((i - 1 + n) % Len(tape)) + 1]]

\* What a sampler does: it returns its points, or raises.
Sampled(points) == [st |-> "return", exc |-> "", msg |-> "", points |-> points]
SampleRaise(exc, msg) == [st |-> "raise", exc |-> exc, msg |-> msg, points |-> << >>]

RECURSIVE LogArguments(_)
\* {atom.args[0] for atom in f.atoms(log)}
LogArguments(E) ==
  UNION {UNION {IF x.b.k \in {"sym", "const"} THEN {}
                ELSE (IF x.b.k = "fn" /\ x.b.name = "log" THEN {x.b.arg} ELSE {})
                       \cup LogArguments(x.b.arg) : x \in t.f} : t \in E.terms}

\* solve_univariate_inequality(relation, symbol) on the relation arg > 0: a
\* relation with a free symbol besides the one solved for does not evaluate
\* at the test values, and the solver raises NotImplementedError.
Solvable(arg, symbol) == free_symbols(arg) \subseteq {symbol}

\* continuous_domain(f, symbol, sp.Reals): one inequality is solved for the
\* argument of every log atom of f (the engine catalogues hold no even
\* root, whose base is constrained the same way).  TRUE when the domain is
\* returned, FALSE when the solver raises.
continuous_domain(f, symbol) == \A arg \in LogArguments(f) : Solvable(arg, symbol)

\* _generate_test_points: the continuous domain of expr is computed first
\* and dropped; then num_points values are drawn.
_generate_test_points(expr, var, num_points, tape) ==
  IF continuous_domain(expr, var) THEN Sampled(Draws(tape, num_points))
  ELSE SampleRaise("NotImplementedError",
                   "The inequality cannot be solved using solve_univariate_inequality.")

(***************************************************************************)
(* Tolerances are decimal floats m * 10^-e.                                *)
(***************************************************************************)
Tol(m, e) == [m |-> m, e |-> e]
DefaultTolerance == Tol(1, 10)

RECURSIVE GtScaled(_, _, _)
\* n * 10^e > q, for naturals, without forming 10^e.
GtScaled(n, q, e) == IF e = 0 THEN n > q ELSE GtScaled(n, q \div 10, e - 1)

\* r > tolerance, for a rational r >= 0.
RGtTol(r, tol) == GtScaled(r.n, tol.m * r.d, tol.e)

\* abs(a - b) > tolerance on floats: a comparison with nan is False, and
\* inf - inf is nan.
AbsDiffExceeds(a, b, tol) ==
  IF a.k = "nan" \/ b.k = "nan" THEN FALSE
  ELSE IF a.k = "ok" /\ b.k = "ok" THEN RGtTol(RAbs(RAdd(a.v, RNeg(b.v))), tol)
  ELSE a.k # b.k

\* abs(a - b) <= tolerance on floats.
AbsDiffWithin(a, b, tol) ==
  IF a.k = "nan" \/ b.k = "nan" THEN FALSE
  ELSE IF a.k = "ok" /\ b.k = "ok" THEN ~RGtTol(RAbs(RAdd(a.v, RNeg(b.v))), tol)
  ELSE FALSE

(***************************************************************************)
(* Results.  A call either returns a result record or lets an exception    *)
(* escape to its caller.                                                   *)
(***************************************************************************)
None == [py |-> "None"]
\* exc names the exception the engine's handler caught, if any.
Returned(outcome, details, exc) ==
  [raised |-> FALSE, exc |-> exc, outcome |-> outcome, details |-> details]
Escaped(exc) ==
  [raised |-> TRUE, exc |-> exc, outcome |-> FALSE, details |-> << >>]

\* What the body of an engine's try block does: it returns, or raises.
\* draws counts the values taken from the random generator.
\* evals is the trace of the per-point loop, one entry per point visited.
BodyReturn(outcome, details, ops, points, draws, evals) ==
  [st |-> "return", outcome |-> outcome, details |-> details, exc |-> "",
   msg |-> "", ops |-> ops, points |-> points, draws |-> draws, evals |-> evals]
BodyRaise(exc, msg, ops) ==
  [st |-> "raise", outcome |-> FALSE, details |-> << >>, exc |-> exc,
   msg |-> msg, ops |-> ops, points |-> << >>, draws |-> 0, evals |-> << >>]

\* `except Exception as e: return {'error': str(e), ...}` around an engine
\* body; rest holds the other keys of the error result.
ExceptException(body, rest) ==
  [result |-> IF body.st = "return" THEN Returned(body.outcome, body.details, "")
              ELSE IF IsException(body.exc)
                THEN Returned(FALSE, ("error" :> body.msg) @@ rest, body.exc)
              ELSE Escaped(body.exc),
   ops |-> body.ops,
   points |-> body.points,
   draws |-> body.draws,
   evals |-> body.evals]

NotEvaluated == FSpecial("none")

\* One pass of the fallback loop body.  float() raising TypeError on either
\* value skips the point (the expected value is not computed when the
\* computed one raised); values differing by more than tolerance fail it.
PointEval(computed_val, expected_val, tolerance) ==
  IF computed_val.k = "TypeError"
    THEN [computed_val |-> computed_val, expected_val |-> NotEvaluated, verdict |-> "skip"]
  ELSE [computed_val |-> computed_val, expected_val |-> expected_val,
        verdict |-> IF expected_val.k = "TypeError" THEN "skip"
                    ELSE IF AbsDiffExceeds(computed_val, expected_val, tolerance) THEN "fail"
                    ELSE "pass"]

\* Variant: the loop also stops after a pass that was skipped.
LoopFromStopAtSkip(pass, rest) == IF pass.verdict # "pass" THEN <<pass>> ELSE <<pass>> \o rest

\* The loop stops (break) after the pass that failed.
LoopFrom(pass, rest) == IF pass.verdict = "fail" THEN <<pass>> ELSE <<pass>> \o rest

RECURSIVE NumericLoop(_, _, _, _, _, _)
\* The fallback loop over the test points of one variable, from point i on:
\* its passes, in order.
NumericLoop(computed, expected, var, points, tolerance, i) ==
  IF i > Len(points) THEN << >>
  ELSE LoopFrom(PointEval(float(subs(computed, [n \in {var} |-> points[i]])),
                          float(subs(expected, [n \in {var} |-> points[i]])),
                          tolerance),
                NumericLoop(computed, expected, var, points, tolerance, i + 1))

\* numerical_equiv after the loop: True unless a pass set it to False.
\* Variant: the loop never clears numerical_equiv.
NumericalEquivAlways(passes) == TRUE
NumericalEquiv(passes) == \A i \in 1..Len(passes) : passes[i].verdict # "fail"

NumTestPoints == 10

SymbolicOps == <<"simplify", "simplify", "simplify">>
FallbackOps(points) == IF Len(points) > 0 THEN <<"sample", "eval">> ELSE <<"sample">>

(***************************************************************************)
(* derivative_equivalent                                                   *)
(***************************************************************************)
DerivativeOps == <<"parse", "parse", "diff">> \o SymbolicOps

\* The two return statements of the try block.
DerivativeReturn(computed_simplified, expected_simplified, symbolic_equiv, numerical_equiv, ops, test_points, passes) ==
  BodyReturn(numerical_equiv,
             [computed |-> str(computed_simplified),
              expected |-> str(expected_simplified),
              symbolic_match |-> symbolic_equiv,
              numerical_match |-> numerical_equiv],
             ops, test_points, Len(test_points), passes)

DerivativeLooped(computed_simplified, expected_simplified, test_points, passes) ==
  DerivativeReturn(computed_simplified, expected_simplified, FALSE,
                   NumericalEquiv(passes),
                   DerivativeOps \o FallbackOps(test_points), test_points, passes)

\* The numeric fallback on the drawn test points.
DerivativeFallback(computed_simplified, expected_simplified, var, tolerance, test_points) ==
  DerivativeLooped(computed_simplified, expected_simplified, test_points,
                   NumericLoop(computed_simplified, expected_simplified, var,
                               test_points, tolerance, 1))

\* The fallback once the sampler was called: its exception leaves the try
\* block.
DerivativeSampled(computed_simplified, expected_simplified, var, tolerance, sample) ==
  IF sample.st = "raise"
  THEN BodyRaise(sample.exc, sample.msg, DerivativeOps \o <<"sample">>)
  ELSE DerivativeFallback(computed_simplified, expected_simplified, var, tolerance,
                          sample.points)

\* Variant: the fallback runs whatever the symbolic test says.
DerivativeCompareSampled(expr_sympy, computed_simplified, expected_simplified, var, tolerance, tape) ==
  DerivativeSampled(computed_simplified, expected_simplified, var, tolerance,
                    _generate_test_points(expr_sympy, var, NumTestPoints, tape))

\* The symbolic test, then the fallback if it is inconclusive.
DerivativeCompare(expr_sympy, computed_simplified, expected_simplified, var, tolerance, tape) ==
  IF simplify(Sub(computed_simplified, expected_simplified)) = EZero
  THEN DerivativeReturn(computed_simplified, expected_simplified, TRUE, TRUE,
                        DerivativeOps, << >>, << >>)
  ELSE DerivativeSampled(computed_simplified, expected_simplified, var, tolerance,
                         _generate_test_points(expr_sympy, var, NumTestPoints, tape))

\* The try block once both operands went through the parser.
DerivativeParsed(expr_sympy, expected_sympy, var, tolerance, tape) ==
  IF expr_sympy.st = "raise" THEN BodyRaise(expr_sympy.exc, expr_sympy.msg, <<"parse">>)
  ELSE IF expected_sympy.st = "raise"
    THEN BodyRaise(expected_sympy.exc, expected_sympy.msg, <<"parse", "parse">>)
  ELSE DerivativeCompare(expr_sympy.e, simplify(diff(expr_sympy.e, var)),
                         simplify(expected_sympy.e), var, tolerance, tape)

DerivativeBody(expr, var, expected, tolerance, tape) ==
  DerivativeParsed(_safe_parse(expr), _safe_parse(expected), var, tolerance, tape)

derivative_equivalent(expr, var, expected, tolerance, tape) ==
  ExceptException(DerivativeBody(expr, var, expected, tolerance, tape),
                  [computed |-> None, expected |-> None])

(***************************************************************************)
(* integral_equivalent                                                     *)
(***************************************************************************)
IntegralOps == <<"parse", "parse", "integrate">> \o SymbolicOps

IntegralReturn(computed_integral, expected_sympy, computed_simplified, expected_simplified, symbolic_equiv, numerical_equiv, constant_free, ops, test_points, passes) ==
  BodyReturn(numerical_equiv,
             [computed |-> str(computed_integral),
              expected |-> str(expected_sympy),
              computed_clean |-> str(computed_simplified),
              expected_clean |-> str(expected_simplified),
              symbolic_match |-> symbolic_equiv,
              numerical_match |-> numerical_equiv,
              constant_free |-> constant_free],
             ops, test_points, Len(test_points), passes)

IntegralLooped(computed_integral, expected_sympy, computed_simplified, expected_simplified, constant_free, test_points, passes) ==
  IntegralReturn(computed_integral, expected_sympy, computed_simplified,
                 expected_simplified, FALSE, NumericalEquiv(passes),
                 constant_free, IntegralOps \o FallbackOps(test_points), test_points,
                 passes)

IntegralFallback(computed_integral, expected_sympy, computed_simplified, expected_simplified, var, constant_free, tolerance, test_points) ==
  IntegralLooped(computed_integral, expected_sympy, computed_simplified,
                 expected_simplified, constant_free, test_points,
                 NumericLoop(computed_simplified, expected_simplified, var,
                             test_points, tolerance, 1))

IntegralSampled(computed_integral, expected_sympy, computed_simplified, expected_simplified, var, constant_free, tolerance, sample) ==
  IF sample.st = "raise"
  THEN BodyRaise(sample.exc, sample.msg, IntegralOps \o <<"sample">>)
  ELSE IntegralFallback(computed_integral, expected_sympy, computed_simplified,
                        expected_simplified, var, constant_free, tolerance,
                        sample.points)

IntegralCompare(expr_sympy, computed_integral, expected_sympy, computed_simplified, expected_simplified, var, constant_free, tolerance, tape) ==
  IF simplify(Sub(computed_simplified, expected_simplified)) = EZero
  THEN IntegralReturn(computed_integral, expected_sympy, computed_simplified,
                      expected_simplified, TRUE, TRUE, constant_free, IntegralOps,
                      << >>, << >>)
  ELSE IntegralSampled(computed_integral, expected_sympy, computed_simplified,
                       expected_simplified, var, constant_free, tolerance,
                       _generate_test_points(expr_sympy, var, NumTestPoints, tape))

\* Constants of integration are stripped from both sides, or from neither.
IntegralClean(expr_sympy, computed_integral, expected_sympy, var, constant_free, tolerance, tape) ==
  IntegralCompare(expr_sympy, computed_integral, expected_sympy,
                  simplify(IF constant_free
                           THEN _remove_constants(computed_integral, var)
                           ELSE computed_integral),
                  simplify(IF constant_free
                           THEN _remove_constants(expected_sympy, var)
                           ELSE expected_sympy),
                  var, constant_free, tolerance, tape)

IntegralParsed(expr_sympy, expected_sympy, var, constant_free, tolerance, tape) ==
  IF expr_sympy.st = "raise" THEN BodyRaise(expr_sympy.exc, expr_sympy.msg, <<"parse">>)
  ELSE IF expected_sympy.st = "raise"
    THEN BodyRaise(expected_sympy.exc, expected_sympy.msg, <<"parse", "parse">>)
  ELSE IntegralClean(expr_sympy.e, integrate(expr_sympy.e, var), expected_sympy.e,
                     var, constant_free, tolerance, tape)

IntegralBody(expr, var, expected, constant_free, tolerance, tape) ==
  IntegralParsed(_safe_parse(expr), _safe_parse(expected), var, constant_free,
                 tolerance, tape)

integral_equivalent(expr, var, expected, constant_free, tolerance, tape) ==
  ExceptException(IntegralBody(expr, var, expected, constant_free, tolerance, tape),
                  [computed |-> None, expected |-> None])

(***************************************************************************)
(* limit_equal                                                             *)
(***************************************************************************)
\* The `to` argument: a string, or a number.
ToStr(s) == [ty |-> "str", s |-> s, v |-> RZero]
ToNum(v) == [ty |-> "num", s |-> "", v |-> v]

\* The checks on the computed limit, in the order the code makes them.
\* Variant: the one-sided limits are not compared.
LimitCheckedOneCall(computed_limit, left_limit, right_limit, direction, ops1) ==
  IF computed_limit.t = "raise" THEN BodyRaise(computed_limit.exc, computed_limit.msg, ops1)
  ELSE IF computed_limit.e = ESpecial("nan") THEN
    BodyReturn(FALSE, [computed |-> None, limit_exists |-> FALSE,
                       error |-> "Limit does not exist"], ops1, << >>, 0, << >>)
  ELSE IF computed_limit.e \in {ESpecial("oo"), ESpecial("-oo")} THEN
    BodyReturn(FALSE, [computed |-> str(computed_limit.e), limit_exists |-> TRUE,
                       finite |-> FALSE], ops1, << >>, 0, << >>)
  ELSE
    BodyReturn(TRUE, [computed |-> str(computed_limit.e), limit_exists |-> TRUE,
                      finite |-> TRUE, direction |-> direction], ops1, << >>, 0, << >>)

\* Variant: the infinity check comes before the comparison of the sides.
LimitCheckedInfinityFirst(computed_limit, left_limit, right_limit, direction, ops1) ==
  IF computed_limit.t = "raise" THEN BodyRaise(computed_limit.exc, computed_limit.msg, ops1)
  ELSE IF computed_limit.e = ESpecial("nan") THEN
    BodyReturn(FALSE, [computed |-> None, limit_exists |-> FALSE,
                       error |-> "Limit does not exist"], ops1, << >>, 0, << >>)
  ELSE IF computed_limit.e \in {ESpecial("oo"), ESpecial("-oo")} THEN
    BodyReturn(FALSE, [computed |-> str(computed_limit.e), limit_exists |-> TRUE,
                       finite |-> FALSE], ops1, << >>, 0, << >>)
  ELSE IF direction = "both" /\ left_limit.t = "raise"
    THEN BodyRaise(left_limit.exc, left_limit.msg, ops1 \o <<"limit">>)
  ELSE IF direction = "both" /\ right_limit.t = "raise"
    THEN BodyRaise(right_limit.exc, right_limit.msg, ops1 \o <<"limit", "limit">>)
  ELSE IF direction = "both" /\ left_limit.e # right_limit.e THEN
    BodyReturn(FALSE, [computed |-> None, limit_exists |-> FALSE,
                       error |-> "Left and right limits differ"],
               ops1 \o <<"limit", "limit">>, << >>, 0, << >>)
  ELSE
    BodyReturn(TRUE, [computed |-> str(computed_limit.e), limit_exists |-> TRUE,
                      finite |-> TRUE, direction |-> direction],
               IF direction = "both" THEN ops1 \o <<"limit", "limit">> ELSE ops1, << >>, 0, << >>)

LimitChecked(computed_limit, left_limit, right_limit, direction, ops1) ==
  IF computed_limit.t = "raise" THEN BodyRaise(computed_limit.exc, computed_limit.msg, ops1)
  ELSE IF computed_limit.e = ESpecial("nan") THEN
    BodyReturn(FALSE, [computed |-> None, limit_exists |-> FALSE,
                       error |-> "Limit does not exist"], ops1, << >>, 0, << >>)
  ELSE IF direction = "both" /\ left_limit.t = "raise"
    THEN BodyRaise(left_limit.exc, left_limit.msg, ops1 \o <<"limit">>)
  ELSE IF direction = "both" /\ right_limit.t = "raise"
    THEN BodyRaise(right_limit.exc, right_limit.msg, ops1 \o <<"limit", "limit">>)
  ELSE IF direction = "both" /\ left_limit.e # right_limit.e THEN
    BodyReturn(FALSE, [computed |-> None, limit_exists |-> FALSE,
                       error |-> "Left and right limits differ"],
               ops1 \o <<"limit", "limit">>, << >>, 0, << >>)
  ELSE IF computed_limit.e \in {ESpecial("oo"), ESpecial("-oo")} THEN
    BodyReturn(FALSE, [computed |-> str(computed_limit.e), limit_exists |-> TRUE,
                       finite |-> FALSE],
               IF direction = "both" THEN ops1 \o <<"limit", "limit">> ELSE ops1, << >>, 0, << >>)
  ELSE
    BodyReturn(TRUE, [computed |-> str(computed_limit.e), limit_exists |-> TRUE,
                      finite |-> TRUE, direction |-> direction],
               IF direction = "both" THEN ops1 \o <<"limit", "limit">> ELSE ops1, << >>, 0, << >>)

\* The try block once expr and the limit point went through the parser.
\* The limit in the requested direction (dir="-" for "left", the default
\* "+" otherwise), then the two one-sided limits; sides maps a dir to the
\* limit taken with it.
LimitSides(sides, direction, ops1) ==
  LimitChecked(sides[IF direction = "left" THEN "-" ELSE "+"], sides["-"], sides["+"],
               direction, ops1)

LimitParsed(expr_sympy, to_sympy, var, direction, ops0) ==
  IF expr_sympy.st = "raise" THEN BodyRaise(expr_sympy.exc, expr_sympy.msg, <<"parse">>)
  ELSE IF to_sympy.st = "raise" THEN BodyRaise(to_sympy.exc, to_sympy.msg, ops0)
  ELSE LimitSides([dir \in {"-", "+"} |-> limit(expr_sympy.e, var, to_sympy.e, dir)],
                  direction, ops0 \o <<"limit">>)

LimitBody(expr, var, to, direction, tolerance) ==
  LimitParsed(_safe_parse(expr),
              IF to.ty = "str" THEN _safe_parse(to.s) ELSE SPOk(ENum(to.v)),
              var, direction,
              IF to.ty = "str" THEN <<"parse", "parse">> ELSE <<"parse">>)

limit_equal(expr, var, to, direction, tolerance) ==
  ExceptException(LimitBody(expr, var, to, direction, tolerance), [computed |-> None])

(***************************************************************************)
(* algebra_equiv and the multi-symbol sampler                              *)
(***************************************************************************)
\* list(a set of symbols): the iteration order comes from the process's
\* string hashing, hashorder lists the names in that order.
ListOf(S, hashorder) == SelectSeq(hashorder, LAMBDA n : n \in S)

\* _generate_test_points_multi: one draw per symbol, point after point.
_generate_test_points_multi(symbols_list, num_points, tape) ==
  [i \in 1..num_points |->
     [n \in {symbols_list[j] : j \in 1..Len(symbols_list)} |->
        Draws(tape, num_points * Len(symbols_list))
          [(i - 1) * Len(symbols_list)
           + (CHOOSE j \in 1..Len(symbols_list) : symbols_list[j] = n)]]]

IsSymbol(E) == \E n \in free_symbols(E) : E = ESym(n)

\* lhs | rhs: a Symbol is a Boolean, so two Symbols can be or-ed; two
\* Integers can be or-ed in the builds of the CAS whose Integer has the
\* bit operations (bitops); every other pair raises.
OrAtoms(lhs, rhs, bitops) ==
  IF IsSymbol(lhs) /\ IsSymbol(rhs) THEN VStr("ok")
  ELSE IF bitops /\ IsInteger(lhs) /\ IsInteger(rhs) THEN VStr("ok")
  ELSE VRaise("TypeError", "unsupported operand type(s) for |")

RECURSIVE NumericLoopMulti(_, _, _, _, _)
\* The fallback loop over assignments of several symbols.
NumericLoopMulti(lhs, rhs, points, tolerance, i) ==
  IF i > Len(points) THEN << >>
  ELSE LoopFrom(PointEval(float(subs(lhs, points[i])), float(subs(rhs, points[i])),
                          tolerance),
                NumericLoopMulti(lhs, rhs, points, tolerance, i + 1))

AlgebraOps == <<"parse", "parse">> \o SymbolicOps

AlgebraReturn(lhs_simplified, rhs_simplified, symbolic_equiv, numerical_equiv, ops, test_points, draws, passes) ==
  BodyReturn(numerical_equiv,
             [lhs |-> str(lhs_simplified), rhs |-> str(rhs_simplified),
              symbolic_match |-> symbolic_equiv, numerical_match |-> numerical_equiv],
             ops, test_points, draws, passes)

\* The comparison of two constants (no symbol in either operand).
ConstantsWithin(lhs_val, rhs_val, tolerance) ==
  IF lhs_val.k = "TypeError" \/ rhs_val.k = "TypeError" THEN FALSE
  ELSE AbsDiffWithin(lhs_val, rhs_val, tolerance)

AlgebraLooped(lhs_simplified, rhs_simplified, all_symbols, test_points, passes) ==
  AlgebraReturn(lhs_simplified, rhs_simplified, FALSE, NumericalEquiv(passes),
                AlgebraOps \o <<"symbols">> \o FallbackOps(test_points), test_points,
                Len(test_points) * Len(all_symbols), passes)

AlgebraSampled(lhs_simplified, rhs_simplified, all_symbols, tolerance, test_points) ==
  AlgebraLooped(lhs_simplified, rhs_simplified, all_symbols, test_points,
                NumericLoopMulti(lhs_simplified, rhs_simplified, test_points, tolerance, 1))

\* The numeric fallback: the symbols of both operands are gathered first.
AlgebraFallback(lhs_simplified, rhs_simplified, union, all_symbols, tolerance, tape) ==
  IF union.t = "raise" THEN BodyRaise(union.exc, union.msg, AlgebraOps \o <<"symbols">>)
  ELSE IF Len(all_symbols) > 0 THEN
    AlgebraSampled(lhs_simplified, rhs_simplified, all_symbols, tolerance,
                   _generate_test_points_multi(all_symbols, NumTestPoints, tape))
  ELSE
    AlgebraReturn(lhs_simplified, rhs_simplified, FALSE,
                  ConstantsWithin(float(lhs_simplified), float(rhs_simplified), tolerance),
                  AlgebraOps \o <<"symbols", "eval">>, << >>, 0, << >>)

AlgebraCompare(lhs_sympy, rhs_sympy, lhs_simplified, rhs_simplified, tolerance, tape, hashorder, bitops) ==
  IF simplify(Sub(lhs_simplified, rhs_simplified)) = EZero
  THEN AlgebraReturn(lhs_simplified, rhs_simplified, TRUE, TRUE, AlgebraOps, << >>, 0, << >>)
  ELSE AlgebraFallback(lhs_simplified, rhs_simplified, OrAtoms(lhs_sympy, rhs_sympy, bitops),
                       ListOf(SymbolAtoms(lhs_sympy) \cup SymbolAtoms(rhs_sympy), hashorder),
                       tolerance, tape)

AlgebraParsed(lhs_sympy, rhs_sympy, tolerance, tape, hashorder, bitops) ==
  IF lhs_sympy.st = "raise" THEN BodyRaise(lhs_sympy.exc, lhs_sympy.msg, <<"parse">>)
  ELSE IF rhs_sympy.st = "raise"
    THEN BodyRaise(rhs_sympy.exc, rhs_sympy.msg, <<"parse", "parse">>)
  ELSE AlgebraCompare(lhs_sympy.e, rhs_sympy.e, simplify(lhs_sympy.e),
                      simplify(rhs_sympy.e), tolerance, tape, hashorder, bitops)

AlgebraBody(lhs, rhs, tolerance, tape, hashorder, bitops) ==
  AlgebraParsed(_safe_parse(lhs), _safe_parse(rhs), tolerance, tape, hashorder, bitops)

algebra_equiv(lhs, rhs, tolerance, tape, hashorder, bitops) ==
  ExceptException(AlgebraBody(lhs, rhs, tolerance, tape, hashorder, bitops),
                  [lhs |-> None, rhs |-> None])

(***************************************************************************)
(* dimensional_check                                                       *)
(***************************************************************************)
\* Unit names the registry defines (those the unit catalogue can name).
RegistryUnits == {"m", "s", "kg", "N", "J", "meter", "second"}

\* The first name among the tokens T that the registry does not define.
UndefinedUnit(T) ==
  T[CHOOSE i \in 1..Len(T) :
      /\ T[i].ty = "NAME" /\ T[i].s \notin RegistryUnits
      /\ \A j \in 1..(i - 1) : ~(T[j].ty = "NAME" /\ T[j].s \notin RegistryUnits)].s

\* UREG.parse_expression on the tokens of the text: raises on a name the
\* registry does not define or on text it cannot tokenize.
UnitTokensParse(T, text) ==
  IF \E i \in 1..Len(T) : T[i].ty \in {"ERR", "STR"}
    THEN VRaise("DefinitionSyntaxError", "missing unary operator")
  ELSE IF \E i \in 1..Len(T) : T[i].ty = "NAME" /\ T[i].s \notin RegistryUnits
    THEN VRaise("UndefinedUnitError",
                "'" \o UndefinedUnit(T) \o "' is not defined in the unit registry")
  ELSE VStr(text)

UREG_parse_expression(text) == UnitTokensParse(Tokens(text, 1), text)

unit_patterns == <<"m", "s", "kg", "N", "J", "W", "A", "V", "F", "H", "T", "C", "mol">>

\* any(pattern in expr_str for pattern in unit_patterns)
HasUnits(expr_str) ==
  \E i \in 1..Len(unit_patterns) : Contains(expr_str, unit_patterns[i])

DimensionalReturn(expr_str, expected_unit, has_units) ==
  BodyReturn(has_units,
             [expression |-> expr_str, expected_unit |-> expected_unit,
              has_units |-> has_units,
              note |-> "Simplified unit checking - full implementation would require proper unit analysis"],
             <<"parse", "units">>, << >>, 0, << >>)

DimensionalParsed(expr_sympy, expected_unit_obj, expected_unit) ==
  IF expr_sympy.st = "raise" THEN BodyRaise(expr_sympy.exc, expr_sympy.msg, <<"parse">>)
  ELSE IF expected_unit_obj.t = "raise"
    THEN BodyRaise(expected_unit_obj.exc, expected_unit_obj.msg, <<"parse", "units">>)
  ELSE DimensionalReturn(str(expr_sympy.e), expected_unit, HasUnits(str(expr_sympy.e)))

DimensionalBody(expr, expected_unit) ==
  DimensionalParsed(_safe_parse(expr), UREG_parse_expression(expected_unit), expected_unit)

dimensional_check(expr, expected_unit) ==
  ExceptException(DimensionalBody(expr, expected_unit),
                  [expression |-> None, expected_unit |-> expected_unit])

(***************************************************************************)
(* numeric_probe                                                           *)
(***************************************************************************)
DefaultNumPoints == 5

\* np.isnan(result) or np.isinf(result)
IsNanOrInf(v) == v.k \in {"nan", "inf", "-inf"}

\* Variant: every pass counts as valid.
ProbeEvalUncaught(result) ==
  [computed_val |-> result, expected_val |-> NotEvaluated, verdict |-> "valid"]

\* One pass of the probe loop body: the point is valid when float() returns
\* a finite value; nan, an infinity and a caught exception count as errors.
ProbeEval(result) ==
  [computed_val |-> result, expected_val |-> NotEvaluated,
   verdict |-> IF result.k # "TypeError" /\ ~IsNanOrInf(result) THEN "valid" ELSE "error"]

RECURSIVE ProbeLoop(_, _, _)
\* The probe loop from point i on: its passes, in order.
ProbeLoop(expr, points, i) ==
  IF i > Len(points) THEN << >>
  ELSE <<ProbeEval(float(subs(expr, points[i])))>> \o ProbeLoop(expr, points, i + 1)

RECURSIVE ValidResults(_)
\* results: the values appended by the valid passes.
ValidResults(passes) ==
  IF passes = << >> THEN << >>
  ELSE (IF Head(passes).verdict = "valid" THEN <<Head(passes).computed_val.v>> ELSE << >>)
       \o ValidResults(Tail(passes))

ProbeConstant(result) ==
  IF result.k = "TypeError" THEN
    BodyReturn(FALSE, [error |-> "Failed to evaluate constant expression",
                       points_tested |-> 0, evaluation_errors |-> 1],
               <<"parse", "symbols", "eval">>, << >>, 0, << >>)
  ELSE
    BodyReturn(TRUE, [constant_value |-> result, points_tested |-> 0,
                      evaluation_errors |-> 0],
               <<"parse", "symbols", "eval">>, << >>, 0, << >>)

ProbeReturn(test_points, results, draws, passes) ==
  BodyReturn(Len(results) > 0,
             [points_tested |-> Len(test_points),
              valid_evaluations |-> Len(results),
              evaluation_errors |-> Len(passes) - Len(results),
              sample_results |-> SubSeq(results, 1, IF Len(results) < 5 THEN Len(results) ELSE 5)],
             <<"parse", "symbols">> \o FallbackOps(test_points), test_points, draws, passes)

ProbeLooped(symbols_list, test_points, passes) ==
  ProbeReturn(test_points, ValidResults(passes),
              Len(test_points) * Len(symbols_list), passes)

ProbeSampled(expr_sympy, symbols_list, test_points) ==
  ProbeLooped(symbols_list, test_points, ProbeLoop(expr_sympy, test_points, 1))

\* range(num_points) is empty for a negative num_points.
ProbeSymbols(expr_sympy, symbols_list, num_points, tape) ==
  IF Len(symbols_list) = 0 THEN ProbeConstant(float(expr_sympy))
  ELSE ProbeSampled(expr_sympy, symbols_list,
                    _generate_test_points_multi(symbols_list,
                        IF num_points < 0 THEN 0 ELSE num_points, tape))

ProbeParsed(expr_sympy, num_points, tape, hashorder) ==
  IF expr_sympy.st = "raise" THEN BodyRaise(expr_sympy.exc, expr_sympy.msg, <<"parse">>)
  ELSE ProbeSymbols(expr_sympy.e, ListOf(SymbolAtoms(expr_sympy.e), hashorder),
                    num_points, tape)

ProbeBody(expr, num_points, tape, hashorder) ==
  ProbeParsed(_safe_parse(expr), num_points, tape, hashorder)

numeric_probe(expr, num_points, tape, hashorder) ==
  ExceptException(ProbeBody(expr, num_points, tape, hashorder),
                  [points_tested |-> 0, evaluation_errors |-> 1])

\* How a call of the processor ends: the ops it performed and what it
\* returned or displayed, or the exception that left it.
RunEnd(res, ops) == [result |-> res, ops |-> ops, points |-> << >>, draws |-> 0, evals |-> << >>]

(***************************************************************************)
(* SupabaseIO.  The database is the set of ids stored in each table; a     *)
(* call of the service returns rows ("data"), returns none ("nodata") or   *)
(* raises ("error"), and stores the record only when it returns rows.      *)
(***************************************************************************)
DocumentRecord(id, content) == [id |-> id, content |-> content]
EmbeddingRecord(id, document_id) == [id |-> id, document_id |-> document_id]
UpsertResult(document_id, embedding_id, success, error) ==
  [document_id |-> document_id, embedding_id |-> embedding_id, success |-> success,
   error |-> error]

Database(kb_document, kb_embedding) ==
  [kb_document |-> kb_document, kb_embedding |-> kb_embedding]
ServiceOutcomes == {"data", "nodata", "error"}

\* The (success, error) pair of upsert_document and upsert_embedding.
UpsertError(outcome, what) ==
  IF outcome = "data" THEN None
  ELSE IF outcome = "nodata" THEN "No data returned from upsert operation"
  ELSE "Error upserting " \o what \o ": ConnectionError"

upsert_document(document, outcome, db) ==
  [success |-> outcome = "data", error |-> UpsertError(outcome, "document"),
   db |-> IF outcome = "data"
          THEN Database(db.kb_document \cup {document.id}, db.kb_embedding) ELSE db]

upsert_embedding(embedding, outcome, db) ==
  [success |-> outcome = "data", error |-> UpsertError(outcome, "embedding"),
   db |-> IF outcome = "data"
          THEN Database(db.kb_document, db.kb_embedding \cup {embedding.id}) ELSE db]

\* How upsert_document_with_embedding ends: its UpsertResult, the database
\* it leaves and the upserts it attempted.
UpsertEnd(res, db, attempted) ==
  RunEnd(Returned(res.success, [result |-> res, db |-> db], ""), attempted)

EmbeddingUpserted(document, embedding, e) ==
  IF ~e.success
  THEN UpsertEnd(UpsertResult(document.id, embedding.id, FALSE,
                              "Embedding upsert failed: " \o e.error),
                 e.db, <<"upsert_document", "upsert_embedding">>)
  ELSE UpsertEnd(UpsertResult(document.id, embedding.id, TRUE, None),
                 e.db, <<"upsert_document", "upsert_embedding">>)

DocumentUpserted(document, embedding, emb_outcome, d) ==
  IF ~d.success
  THEN UpsertEnd(UpsertResult(document.id, None, FALSE,
                              "Document upsert failed: " \o d.error),
                 d.db, <<"upsert_document">>)
  ELSE EmbeddingUpserted(document, embedding, upsert_embedding(embedding, emb_outcome, d.db))

upsert_document_with_embedding(document, embedding, doc_outcome, emb_outcome, db) ==
  DocumentUpserted(document, embedding, emb_outcome,
                   upsert_document(document, doc_outcome, db))

\* batch_upsert_documents_with_embeddings while the service stores every
\* record: ValueError when the two lists differ in length, otherwise the
\* results of upsert_document_with_embedding on the pairs of zip, in order.
BatchUpserted(documents, embeddings) ==
  [i \in 1..Len(documents) |->
     upsert_document_with_embedding(documents[i], embeddings[i], "data", "data",
                                    Database({}, {})).result.details.result]

batch_upsert_documents_with_embeddings(documents, embeddings) ==
  IF Len(documents) # Len(embeddings)
  THEN [raised |-> TRUE, exc |-> "ValueError", results |-> << >>]
  ELSE [raised |-> FALSE, exc |-> "", results |-> BatchUpserted(documents, embeddings)]

(***************************************************************************)
(* The ingestion pipeline of the content processor.  A PDF is the sequence *)
(* of the texts of its segments; ops lists the constructors and methods    *)
(* the run calls, in order.                                                *)
(***************************************************************************)
\* An optional string is None or a str object.
PyStr(s) == [py |-> "str", s |-> s]

\* Python truth of an optional string.
Truthy(v) == v \notin {None, PyStr("")}

\* Variant: the key alone decides.
UsesOpenAIWithKey(dry_run, openai_key) == Truthy(openai_key)

\* `if not dry_run and openai_key:` of steps 3 and 4.
UsesOpenAI(dry_run, openai_key) == ~dry_run /\ Truthy(openai_key)

\* `if not dry_run and supabase_url and supabase_key:` of step 5.
UsesSupabase(dry_run, supabase_url, supabase_key) ==
  ~dry_run /\ Truthy(supabase_url) /\ Truthy(supabase_key)

\* Step 2: one tag_content call per segment.
TagOps(segments) == <<"APCalculusTagger">> \o [i \in 1..Len(segments) |-> "tag_content"]

\* Step 3: the paraphraser's results, or one skipped result per segment.
ParaphraseOps(live) == IF live THEN <<"ContentParaphraser", "paraphrase_batch">> ELSE << >>
ParaphraseResults(segments, live) ==
  [i \in 1..Len(segments) |->
     [original_text |-> segments[i],
      paraphrased_text |-> IF live THEN <<"paraphrase", segments[i]>> ELSE segments[i],
      skipped |-> ~live]]

\* Step 4: the generator's results (embedded is the set of the segments
\* whose text the service embedded), or one zero-token result per
\* paraphrase result.
EmbeddingOps(live) ==
  IF live THEN <<"EmbeddingGenerator", "generate_batch_embeddings">> ELSE << >>
EmbeddingResults(paraphrase_results, live, embedded) ==
  [i \in 1..Len(paraphrase_results) |->
     [text |-> paraphrase_results[i].paraphrased_text,
      token_count |-> IF live /\ i \in embedded THEN 1 ELSE 0,
      success |-> ~live \/ i \in embedded]]

\* Step 5: a document record per segment, an embedding record per
\* successful embedding, then the batch upsert.
PrepareOps(embedding_results, i) ==
  IF embedding_results[i].success
  THEN <<"_prepare_document_record", "_prepare_embedding_record">>
  ELSE <<"_prepare_document_record">>
RECURSIVE RecordOps(_, _)
RecordOps(embedding_results, i) ==
  IF i > Len(embedding_results) THEN << >>
  ELSE PrepareOps(embedding_results, i) \o RecordOps(embedding_results, i + 1)
UpsertOps(embedding_results) ==
  <<"SupabaseIO">> \o RecordOps(embedding_results, 1)
    \o <<"batch_upsert_documents_with_embeddings">>

\* The records step 5 prepares: a document per segment and an embedding per
\* successful embedding result, with the id of the document of its segment.
PreparedDocuments(paraphrase_results) ==
  [i \in 1..Len(paraphrase_results) |->
     DocumentRecord(<<"doc", i>>, paraphrase_results[i].paraphrased_text)]
RECURSIVE PreparedEmbeddings(_, _)
PreparedEmbeddings(embedding_results, i) ==
  IF i > Len(embedding_results) THEN << >>
  ELSE (IF embedding_results[i].success
        THEN <<EmbeddingRecord(<<"emb", i>>, <<"doc", i>>)>> ELSE << >>)
       \o PreparedEmbeddings(embedding_results, i + 1)

\* _display_results: the rows of the summary table, and the upsert results
\* they count.
Summary(segments, paraphrase_results, embedding_results, upsert_results, dry_run) ==
  [segments |-> Len(segments),
   paraphrased |-> Cardinality({i \in 1..Len(paraphrase_results) :
                                  ~paraphrase_results[i].skipped}),
   skipped |-> Cardinality({i \in 1..Len(paraphrase_results) :
                              paraphrase_results[i].skipped}),
   embeddings |-> Cardinality({i \in 1..Len(embedding_results) :
                                 embedding_results[i].success}),
   upserted |-> Len(upsert_results),
   upsert_results |-> upsert_results,
   dry_run |-> dry_run]

\* The exception of the batch upsert leaves _run_ingestion; its results are
\* displayed.
IngestionBatched(segments, paraphrase_results, embedding_results, upsert, dry_run, ops) ==
  IF upsert.raised THEN RunEnd(Escaped(upsert.exc), ops)
  ELSE RunEnd(Returned(TRUE, Summary(segments, paraphrase_results, embedding_results,
                                     upsert.results, dry_run), ""),
              ops \o <<"_display_results">>)

IngestionUpserted(segments, paraphrase_results, embedding_results, live_db, dry_run, ops) ==
  IF ~live_db
  THEN RunEnd(Returned(TRUE, Summary(segments, paraphrase_results, embedding_results,
                                     << >>, dry_run), ""),
              ops \o <<"_display_results">>)
  ELSE IngestionBatched(segments, paraphrase_results, embedding_results,
                        batch_upsert_documents_with_embeddings(
                          PreparedDocuments(paraphrase_results),
                          PreparedEmbeddings(embedding_results, 1)),
                        dry_run, ops \o UpsertOps(embedding_results))

IngestionEmbedded(segments, paraphrase_results, live, live_db, embedded, dry_run, ops) ==
  IngestionUpserted(segments, paraphrase_results,
                    EmbeddingResults(paraphrase_results, live, embedded),
                    live_db, dry_run, ops \o EmbeddingOps(live))

IngestionParaphrased(segments, live3, live4, live_db, embedded, dry_run, ops) ==
  IngestionEmbedded(segments, ParaphraseResults(segments, live3), live4, live_db,
                    embedded, dry_run, ops \o ParaphraseOps(live3))

\* _run_ingestion on a PDF whose segments are given; embedded is what the
\* embedding service does if it is asked.
_run_ingestion(segments, dry_run, openai_key, supabase_url, supabase_key, embedded) ==
  IF Len(segments) = 0
  THEN RunEnd(Returned(FALSE, [segments |-> 0], ""), <<"PDFIngester", "load_pdf">>)
  ELSE IngestionParaphrased(segments, UsesOpenAI(dry_run, openai_key),
                            UsesOpenAI(dry_run, openai_key),
                            UsesSupabase(dry_run, supabase_url, supabase_key),
                            embedded, dry_run,
                            <<"PDFIngester", "load_pdf">> \o TagOps(segments))

(***************************************************************************)
(* The paraphraser.  A ParaphraseResult keeps the fields the pipeline      *)
(* reads; confidence and api_cost are floats derived from the others.      *)
(***************************************************************************)
Whitespace == {" ", "\n", "\t"}

RECURSIVE lstrip(_)
lstrip(s) == IF s # "" /\ Char(s, 1) \in Whitespace THEN lstrip(SubSeq(s, 2, Len(s))) ELSE s

RECURSIVE rstrip(_)
rstrip(s) ==
  IF s # "" /\ Char(s, Len(s)) \in Whitespace THEN rstrip(SubSeq(s, 1, Len(s) - 1)) ELSE s

\* str.strip()
strip(s) == rstrip(lstrip(s))

\* str.split(sep) for a separator of one character.
RECURSIVE split(_, _)
split(s, sep) ==
  IF ~Contains(s, sep) THEN <<s>>
  ELSE LET i == CHOOSE i \in 1..Len(s) : Char(s, i) = sep /\ \A j \in 1..(i - 1) : Char(s, j) # sep
       IN  <<SubSeq(s, 1, i - 1)>> \o split(SubSeq(s, i + 1, Len(s)), sep)

\* sum(1 for c in text if c in C)
CountIn(text, C) == Cardinality({i \in 1..Len(text) : Char(text, i) \in C})

MathChars == {"(", ")", "[", "]", "{", "}", "^", "_", "+", "-", "=", "<", ">", "/", "\\"}
PlainChars == {" ", ".", ",", "!", "?", ";", ":"}
isalnum(c) == c \in Letters \cup Digits
\* The markers of a list line (the texts of the catalogue are ASCII).
ListMarkers == {"-", "*", "1.", "2.", "3."}

startswith(line, prefixes) ==
  \E prefix \in prefixes :
    Len(line) >= Len(prefix) /\ SubSeq(line, 1, Len(prefix)) = prefix

SkipDecision(should_skip, reason) == [should_skip |-> should_skip, reason |-> reason]

LooksLikeList(lines) ==
  Len(lines) > 3 /\ \A i \in 1..3 : startswith(strip(lines[i]), ListMarkers)

\* The two ratios are compared as fractions: n / len > 0.3 and n / len > 0.4.
_should_skip_paraphrase(text) ==
  IF Len(strip(text)) < 20 THEN SkipDecision(TRUE, PyStr("Text too short"))
  ELSE IF 10 * CountIn(text, MathChars) > 3 * Len(text)
    THEN SkipDecision(TRUE, PyStr("Mostly mathematical notation"))
  ELSE IF 10 * Cardinality({i \in 1..Len(text) :
                              ~isalnum(Char(text, i)) /\ Char(text, i) \notin PlainChars})
            > 4 * Len(text)
    THEN SkipDecision(TRUE, PyStr("Too many special characters"))
  ELSE IF LooksLikeList(split(strip(text), "\n"))
    THEN SkipDecision(TRUE, PyStr("Appears to be a list"))
  ELSE SkipDecision(FALSE, None)

ParaphraseResult(original_text, paraphrased_text, skipped, reason, token_count) ==
  [original_text |-> original_text, paraphrased_text |-> paraphrased_text,
   skipped |-> skipped, reason |-> reason, token_count |-> token_count]

\* paraphrase_text up to the call of the service: the skipped result, or
\* nothing yet.
SkippedResult(text, decision) ==
  ParaphraseResult(text, text, TRUE, decision.reason, 0)

\* paraphrase_text after the service answered with a completion.
ParaphrasedResult(text, content, tokens_used) ==
  ParaphraseResult(text, strip(content), FALSE, None, tokens_used)

\* Variant: the handler keeps no text.
FailedResultBlank(text, exc) ==
  ParaphraseResult(text, "", TRUE, PyStr("API error: " \o exc), 0)

\* paraphrase_text's handler of an exception of the service.
FailedResult(text, exc) ==
  ParaphraseResult(text, text, TRUE, PyStr("API error: " \o exc), 0)

\* The retry policy of _paraphrase_text.
MaxAttempts == 3
Retried == {"RateLimitError", "APITimeoutError"}

\* A coroutine of the batch: where it is, the attempt of the service call
\* it is making, and what it returned or raised.
Task(pc, attempt, res) == [pc |-> pc, attempt |-> attempt, result |-> res]

\* gather(return_exceptions=True) hands back the exception of a task that
\* raised, as a value.
isinstance_Exception(res) == "exception" \in DOMAIN res

\* The loop of paraphrase_batch over the gathered results.
ProcessedResult(text, res) ==
  IF isinstance_Exception(res)
  THEN ParaphraseResult(text, text, TRUE, PyStr("Exception: " \o res.exception), 0)
  ELSE res

(***************************************************************************)
(* RateLimiter: a sliding window over the times of the calls let through.  *)
(* Times are whole seconds.                                                *)
(***************************************************************************)
Window == 60

\* [req_time for req_time in self.requests if now - req_time < 60]
Recent(reqs, t) == SelectSeq(reqs, LAMBDA req_time : t - req_time < Window)

\* Variant: half the wait.
sleep_time_half(reqs, t) == 30 - (t - reqs[1]) + 1

\* sleep_time = 60 - (now - self.requests[0]) + 1
sleep_time(reqs, t) == Window - (t - reqs[1]) + 1

(***************************************************************************)
(* The process: requests arrive one at a time, each engine call runs to    *)
(* completion and its result is handed back before the next request.       *)
(***************************************************************************)
\* rng is the state of the process-wide generator, hashorder the iteration
\* order of a set of symbols in this process, bitops tells whether the
\* installed CAS has the bit operations of Integer.
\* response is what the HTTP facade sent for the request, if it came
\* through an endpoint.
\* seeded tells whether the caller seeded the generator right before the
\* request in progress, and with what; first holds the result of the
\* first run when the caller repeats a request under the same seed.
VARIABLES phase, rng, hashorder, bitops, call, result, ops, points, evals, response,
          seeded, first

\* The content processor's event loop.  batch is the paraphrase_batch call
\* in progress, task the state of each of its coroutines, semaphore the
\* value of its asyncio.Semaphore and processed the list it returned.
VARIABLES batch, task, semaphore, processed

\* A rate limiter on the event loop.  now is the wall clock in seconds,
\* lock the FIFO of the coroutines at the limiter's asyncio.Lock (its head
\* holds the lock), caller the state of each coroutine that calls the
\* limiter and granted the times at which calls were let through.
\* max_requests and requests are the fields of a RateLimiter.
VARIABLES now, lock, caller, granted, max_requests, requests

\* The rate-limiting fields of an EmbeddingGenerator.
VARIABLES max_requests_per_minute, requests_made, window_start

verifier ==
  <<phase, rng, hashorder, bitops, call, result, ops, points, evals, response, seeded, first>>

paraphraser == <<batch, task, semaphore, processed>>

eventloop == <<now, lock, caller, granted>>

ratelimiter == <<max_requests, requests>>

generator == <<max_requests_per_minute, requests_made, window_start>>

processor == <<paraphraser, eventloop, ratelimiter, generator>>

vars == <<verifier, processor>>

\* Operand catalogues.
Vars == {"x", "y"}
Tolerances == {DefaultTolerance, Tol(1, 0), Tol(100, 0)}
DerivativeExprs == {"x^2", "x^3 - 2*x", "x^2 + log(x*y)", "x^", "__import__('sys').exit()"}
DerivativeExpected ==
  {"2*x", "3*x", "2*x + 1", "3*x^2 - 2", "(x + 1)^2 - x^2 - 1", "1/x", "nan",
   "2*x + y", "x -"}
IntegralExprs == {"2*x + 2", "2*x", "sin("}
IntegralExpected ==
  {"x^2 + 2*x", "x^2 + 2*x + 7", "(x + 1)^2", "x^2 + 5", "x^2 + y", "x^3", "eval('x')"}
LimitExprs == {"1/x", "1/x^2", "-1/x^2", "x^2 + 1", "x", "5", "oo", "zoo", "1/0", "nan", "x^"}
LimitPoints == {ToStr("0"), ToStr("2"), ToStr("oo"), ToStr("1/0"), ToStr("x -"), ToNum(RInt(0))}
Directions == {"left", "right", "both", "two-sided"}
AlgebraTexts == {"x", "y", "x + 1", "x + 3/2", "2*x", "x + x", "1", "2", "nan", "open('f')"}
DimensionalExprs == {"m/s", "5*kg", "x", "sin(x)", "x@y"}
UnitTexts == {"m/s", "kg", "notaunit", "m $"}
ProbeExprs == {"5", "x^2", "1/x", "x*y", "1/0", "nan", "oo", "x.y"}
NumPoints == {0, DefaultNumPoints, DefaultNumPoints + 1}
ParseTexts ==
  {"x^2", "(x + 1)^2", "sin(x)", "sqrt(x)", "x^", "sin(", "", "x -", "1.5 +", "x++",
   "eval('x')", "__import__('os')", "open('f')", "x@y", "x.y", "foo(x)",
   "foo(x) - 1", "expand(x)", "abs(x)", "Symbol('a b')", "zoo", "1/0",
   "__import__('sys').exit()"}
SymbolNames == <<"x", "y">>
HashOrders == {SymbolNames, <<SymbolNames[2], SymbolNames[1]>>}

NoCall == [fn |-> "none"]
NoResult == [raised |-> FALSE, exc |-> "", outcome |-> FALSE, details |-> << >>]
NoResponse == [status |-> 0, body |-> << >>]
Seeds == {7, 42}
NotSeeded == [set |-> FALSE, seed |-> 0]

\* No batch was submitted yet.
NoBatch == [pc |-> "idle", texts |-> << >>, max_concurrent |-> 0]
ParaphraserIdle == batch = NoBatch /\ task = << >> /\ semaphore = 0 /\ processed = << >>

\* No coroutine has called a limiter yet.
MaxCallers == 3
Callers == 1..MaxCallers
Caller(pc, wake, oldest, at) == [pc |-> pc, wake |-> wake, oldest |-> oldest, at |-> at]
EventLoopIdle ==
  /\ now = 0
  /\ lock = << >>
  /\ caller = [c \in Callers |-> Caller("idle", 0, 0, 0)]
  /\ granted = << >>

\* RateLimiter.__init__ with the default limit.
RateLimiterIdle == max_requests = 50 /\ requests = << >>

\* EmbeddingGenerator.__init__ with the default limit.
GeneratorIdle == max_requests_per_minute = 3000 /\ requests_made = 0 /\ window_start = 0

ProcessorIdle == ParaphraserIdle /\ EventLoopIdle /\ RateLimiterIdle /\ GeneratorIdle

\* The verifier between two requests, on one generator state.
VerifierIdle ==
  /\ phase = "idle"
  /\ rng = CHOOSE tape \in Tapes : TRUE
  /\ hashorder = SymbolNames
  /\ bitops = FALSE
  /\ call = NoCall
  /\ result = NoResult
  /\ ops = << >>
  /\ points = << >>
  /\ evals = << >>
  /\ response = NoResponse
  /\ seeded = NotSeeded
  /\ first = NoResult

Init ==
  /\ ProcessorIdle
  /\ phase = "idle"
  /\ rng \in Tapes
  /\ hashorder \in HashOrders
  /\ bitops \in BOOLEAN
  /\ call = NoCall
  /\ result = NoResult
  /\ ops = << >>
  /\ points = << >>
  /\ evals = << >>
  /\ response = NoResponse
  /\ seeded = NotSeeded
  /\ first = NoResult

\* The caller seeds the generator before its next request.
Reseed ==
  /\ phase = "idle"
  /\ ~seeded.set
  /\ \E seed \in Seeds :
       /\ rng' = np_random_seed(seed, rng)
       /\ seeded' = [set |-> TRUE, seed |-> seed]
  /\ UNCHANGED <<phase, hashorder, bitops, call, result, ops, points, evals, response, first, processor>>

\* An engine call c returned r.
Finish(c, r) ==
  /\ phase = "again" => c = call
  /\ \E done \in {r} :
    /\ phase' = IF phase = "again" THEN "repeated" ELSE "returned"
    /\ call' = c
    /\ result' = done.result
    /\ ops' = done.ops
    /\ points' = done.points
    /\ evals' = done.evals
    /\ rng' = Advance(rng, done.draws)
    /\ UNCHANGED <<hashorder, bitops, response, seeded, first, processor>>

CallDerivative ==
  /\ phase \in {"idle", "again"}
  /\ \E expr \in DerivativeExprs, var \in Vars, expected \in DerivativeExpected,
        tolerance \in Tolerances :
       Finish([fn |-> "derivative_equivalent", expr |-> expr, var |-> var,
               expected |-> expected, tolerance |-> tolerance],
              derivative_equivalent(expr, var, expected, tolerance, rng))

CallIntegral ==
  /\ phase \in {"idle", "again"}
  /\ \E expr \in IntegralExprs, var \in Vars, expected \in IntegralExpected,
        constant_free \in BOOLEAN, tolerance \in Tolerances :
       Finish([fn |-> "integral_equivalent", expr |-> expr, var |-> var,
               expected |-> expected, constant_free |-> constant_free,
               tolerance |-> tolerance],
              integral_equivalent(expr, var, expected, constant_free, tolerance, rng))

CallLimit ==
  /\ phase \in {"idle", "again"}
  /\ \E expr \in LimitExprs, to \in LimitPoints, direction \in Directions :
       Finish([fn |-> "limit_equal", expr |-> expr, var |-> "x", to |-> to,
               direction |-> direction, tolerance |-> DefaultTolerance],
              limit_equal(expr, "x", to, direction, DefaultTolerance))

CallAlgebra ==
  /\ phase \in {"idle", "again"}
  /\ \E lhs \in AlgebraTexts, rhs \in AlgebraTexts, tolerance \in Tolerances :
       Finish([fn |-> "algebra_equiv", lhs |-> lhs, rhs |-> rhs,
               tolerance |-> tolerance],
              algebra_equiv(lhs, rhs, tolerance, rng, hashorder, bitops))

CallDimensional ==
  /\ phase \in {"idle", "again"}
  /\ \E expr \in DimensionalExprs, expected_unit \in UnitTexts :
       Finish([fn |-> "dimensional_check", expr |-> expr, expected_unit |-> expected_unit],
              dimensional_check(expr, expected_unit))

CallProbe ==
  /\ phase \in {"idle", "again"}
  /\ \E expr \in ProbeExprs, num_points \in NumPoints :
       Finish([fn |-> "numeric_probe", expr |-> expr, num_points |-> num_points],
              numeric_probe(expr, num_points, rng, hashorder))

\* A direct call of the parser; result holds what it returned or raised.
CallSafeParse ==
  /\ phase = "idle"
  /\ \E expr_str \in ParseTexts :
       /\ call' = [fn |-> "_safe_parse", expr_str |-> expr_str]
       /\ result' = _safe_parse(expr_str)
  /\ phase' = "returned"
  /\ ops' = <<"parse">>
  /\ points' = << >>
  /\ evals' = << >>
  /\ UNCHANGED <<rng, hashorder, bitops, response, seeded, first, processor>>

\* The caller seeds the generator with the seed of the first run and is
\* about to send the same request to the same engine again.
Repeat ==
  /\ phase = "returned"
  /\ seeded.set
  /\ call.fn \in {"derivative_equivalent", "integral_equivalent", "limit_equal",
                  "algebra_equiv", "dimensional_check", "numeric_probe"}
  /\ phase' = "again"
  /\ first' = result
  /\ rng' = np_random_seed(seeded.seed, rng)
  /\ UNCHANGED <<hashorder, bitops, call, result, ops, points, evals, response, seeded, processor>>

Pdfs == {<< >>, <<"Test content">>, <<"Limits", "Derivatives">>}
OptionalKeys == {None, PyStr(""), PyStr("key")}

\* `processor ingest`, or a direct call of _run_ingestion.
CallRunIngestion ==
  /\ phase = "idle"
  /\ \E segments \in Pdfs, dry_run \in BOOLEAN, openai_key \in OptionalKeys,
        supabase_url \in OptionalKeys, supabase_key \in OptionalKeys :
     \E embedded \in SUBSET (1..Len(segments)) :
       Finish([fn |-> "_run_ingestion", segments |-> segments, dry_run |-> dry_run,
               openai_key |-> openai_key, supabase_url |-> supabase_url,
               supabase_key |-> supabase_key, embedded |-> embedded],
              _run_ingestion(segments, dry_run, openai_key, supabase_url,
                             supabase_key, embedded))

Documents == {DocumentRecord("doc-1", "Limits"), DocumentRecord("doc-2", "Derivatives")}
Embeddings == {EmbeddingRecord("emb-1", "doc-1"), EmbeddingRecord("emb-2", "doc-2")}
EmptyDatabase == Database({}, {})

\* A call of SupabaseIO.upsert_document_with_embedding on an empty database.
CallUpsert ==
  /\ phase = "idle"
  /\ \E document \in Documents, embedding \in Embeddings,
        doc_outcome \in ServiceOutcomes, emb_outcome \in ServiceOutcomes :
       Finish([fn |-> "upsert_document_with_embedding", document |-> document,
               embedding |-> embedding, doc_outcome |-> doc_outcome,
               emb_outcome |-> emb_outcome],
              upsert_document_with_embedding(document, embedding, doc_outcome,
                                             emb_outcome, EmptyDatabase))

\* The caller takes the result; the process is ready for the next request.
Deliver ==
  /\ phase \in {"returned", "repeated"}
  /\ phase' = "idle"
  /\ call' = NoCall
  /\ result' = NoResult
  /\ ops' = << >>
  /\ points' = << >>
  /\ evals' = << >>
  /\ response' = NoResponse
  /\ seeded' = NotSeeded
  /\ first' = NoResult
  /\ UNCHANGED <<rng, hashorder, bitops, processor>>

(***************************************************************************)
(* The HTTP facade: one endpoint per engine.                               *)
(***************************************************************************)
\* json.dumps(content, allow_nan=False) of the response class: a float
\* that is nan or an infinity is refused.
JSONCompliant(content) ==
  ~("constant_value" \in DOMAIN content.details
    /\ content.details.constant_value.k \in {"nan", "inf", "-inf"})

\* What the endpoint sends for the engine's result r: the handler returns
\* r as it is and the framework renders it; an Exception raised by the
\* engine becomes a 400, any other exception leaves the handler (status 0),
\* and a result the renderer refuses becomes the server's 500.
EndpointResponse(r, label) ==
  IF r.raised /\ IsException(r.exc)
    THEN [status |-> 400, body |-> [detail |-> label \o " failed: " \o r.exc]]
  ELSE IF r.raised THEN NoResponse
  ELSE IF ~JSONCompliant(r)
    THEN [status |-> 500, body |-> [detail |-> "Internal Server Error"]]
  ELSE [status |-> 200, body |-> [outcome |-> r.outcome, details |-> r.details]]

\* Endpoint call c ran its engine, which returned r.
Respond(c, r, label) ==
  \E done \in {r} :
    /\ phase' = "returned"
    /\ call' = c
    /\ result' = done.result
    /\ ops' = done.ops
    /\ points' = done.points
    /\ evals' = done.evals
    /\ rng' = Advance(rng, done.draws)
    /\ response' = EndpointResponse(done.result, label)
    /\ UNCHANGED <<hashorder, bitops, seeded, first, processor>>

\* Request records of the endpoints.
DerivativeRequests ==
  {[expr |-> e, var |-> "x", expected |-> q, tolerance |-> DefaultTolerance] :
     e \in {"x^2", "x^", "__import__('sys').exit()"}, q \in {"2*x", "3*x"}}
IntegralRequests ==
  {[expr |-> e, var |-> "x", expected |-> "x^2 + 5", constant_free |-> cf,
    tolerance |-> DefaultTolerance] : e \in {"2*x", "sin("}, cf \in BOOLEAN}
LimitRequests ==
  {[expr |-> e, var |-> "x", to |-> ToStr("0"), direction |-> d,
    tolerance |-> DefaultTolerance] : e \in {"1/x", "x^2 + 1", "x^"}, d \in {"both", "right"}}
AlgebraRequests ==
  {[lhs |-> l, rhs |-> "x", tolerance |-> DefaultTolerance] :
     l \in {"x", "y", "x + x", "open('f')"}}
DimensionalRequests ==
  {[expr |-> e, expected_unit |-> u] : e \in {"m/s", "x", "x@y"}, u \in {"m/s", "notaunit"}}
NumericProbeRequests ==
  {[expr |-> e, num_points |-> DefaultNumPoints] : e \in {"5", "x^2", "1/x", "nan", "x.y"}}

verify_derivative ==
  /\ phase = "idle"
  /\ \E request \in DerivativeRequests :
       Respond([fn |-> "verify_derivative", request |-> request],
               derivative_equivalent(request.expr, request.var, request.expected,
                                     request.tolerance, rng),
               "Derivative verification")

verify_integral ==
  /\ phase = "idle"
  /\ \E request \in IntegralRequests :
       Respond([fn |-> "verify_integral", request |-> request],
               integral_equivalent(request.expr, request.var, request.expected,
                                   request.constant_free, request.tolerance, rng),
               "Integral verification")

verify_limit ==
  /\ phase = "idle"
  /\ \E request \in LimitRequests :
       Respond([fn |-> "verify_limit", request |-> request],
               limit_equal(request.expr, request.var, request.to, request.direction,
                           request.tolerance),
               "Limit verification")

verify_algebra ==
  /\ phase = "idle"
  /\ \E request \in AlgebraRequests :
       Respond([fn |-> "verify_algebra", request |-> request],
               algebra_equiv(request.lhs, request.rhs, request.tolerance, rng,
                             hashorder, bitops),
               "Algebra verification")

verify_dimensional ==
  /\ phase = "idle"
  /\ \E request \in DimensionalRequests :
       Respond([fn |-> "verify_dimensional", request |-> request],
               dimensional_check(request.expr, request.expected_unit),
               "Dimensional verification")

verify_numeric_probe ==
  /\ phase = "idle"
  /\ \E request \in NumericProbeRequests :
       Respond([fn |-> "verify_numeric_probe", request |-> request],
               numeric_probe(request.expr, request.num_points, rng, hashorder),
               "Numeric probe")

Next ==
  \/ Reseed
  \/ Repeat
  \/ CallDerivative
  \/ CallIntegral
  \/ CallLimit
  \/ CallAlgebra
  \/ CallDimensional
  \/ CallProbe
  \/ CallSafeParse
  \/ CallRunIngestion
  \/ CallUpsert
  \/ verify_derivative
  \/ verify_integral
  \/ verify_limit
  \/ verify_algebra
  \/ verify_dimensional
  \/ verify_numeric_probe
  \/ Deliver

Spec == Init /\ [][Next]_vars

(***************************************************************************)
(* paraphrase_batch: one coroutine per text runs paraphrase_text under the *)
(* semaphore; the event loop interleaves the coroutines at their awaits.   *)
(***************************************************************************)
Texts ==
  {"Too short",
   "The chain rule differentiates composites.",
   "f(x) = (x+1)^2 - (x-1)^2",
   "- limits\n- derivatives\n- integrals\n- series"}
Completions == {"  Composites are differentiated by the chain rule.\n", ""}
MaxTexts == 3
MaxConcurrent == 2
Batches == UNION {[1..n -> Texts] : n \in 0..MaxTexts}

\* paraphrase_batch(texts, max_concurrent) up to its await of gather.
paraphrase_batch ==
  /\ batch.pc = "idle"
  /\ \E texts \in Batches, max_concurrent \in 1..MaxConcurrent :
       /\ batch' = [pc |-> "gathering", texts |-> texts, max_concurrent |-> max_concurrent]
       /\ task' = [i \in 1..Len(texts) |-> Task("created", 0, None)]
       /\ semaphore' = max_concurrent
  /\ UNCHANGED <<processed, verifier, eventloop, ratelimiter, generator>>

\* A coroutine gets the semaphore and runs paraphrase_text up to its first
\* await: a skipped text is returned at once and the semaphore released.
paraphrase_with_semaphore(i) ==
  /\ batch.pc = "gathering"
  /\ task[i].pc = "created"
  /\ semaphore > 0
  /\ \E decision \in {_should_skip_paraphrase(batch.texts[i])} :
       IF decision.should_skip
       THEN /\ task' = [task EXCEPT ![i] =
                          Task("skipped", 0, SkippedResult(batch.texts[i], decision))]
            /\ UNCHANGED semaphore
       ELSE /\ task' = [task EXCEPT ![i] = Task("calling", 1, None)]
            /\ semaphore' = semaphore - 1
  /\ UNCHANGED <<batch, processed, verifier, eventloop, ratelimiter, generator>>

\* The service answers the call of coroutine i with a completion.
Completion(i) ==
  /\ task[i].pc = "calling"
  /\ \E content \in Completions :
       task' = [task EXCEPT ![i] =
                  Task("paraphrased", task[i].attempt,
                       ParaphrasedResult(batch.texts[i], content, 1))]
  /\ semaphore' = semaphore + 1
  /\ UNCHANGED <<batch, processed, verifier, eventloop, ratelimiter, generator>>

\* The service refuses the call with an error the retry policy covers and
\* an attempt is left.
Retry(i) ==
  /\ task[i].pc = "calling"
  /\ task[i].attempt < MaxAttempts
  /\ task' = [task EXCEPT ![i] = Task("calling", task[i].attempt + 1, None)]
  /\ UNCHANGED <<batch, semaphore, processed, verifier, eventloop, ratelimiter, generator>>

\* The call fails for good: the last attempt was refused (RetryError) or
\* the service raised another error.
ApiError(i) ==
  /\ task[i].pc = "calling"
  /\ \E exc \in {"RetryError", "APIError"} :
       /\ exc = "RetryError" => task[i].attempt = MaxAttempts
       /\ task' = [task EXCEPT ![i] =
                     Task("failed", task[i].attempt, FailedResult(batch.texts[i], exc))]
  /\ semaphore' = semaphore + 1
  /\ UNCHANGED <<batch, processed, verifier, eventloop, ratelimiter, generator>>

\* gather has every result; paraphrase_batch builds its list and returns.
Gathered ==
  /\ batch.pc = "gathering"
  /\ \A i \in 1..Len(task) : task[i].pc \in {"skipped", "paraphrased", "failed"}
  /\ batch' = [batch EXCEPT !.pc = "returned"]
  /\ processed' = [i \in 1..Len(task) |-> ProcessedResult(batch.texts[i], task[i].result)]
  /\ UNCHANGED <<task, semaphore, verifier, eventloop, ratelimiter, generator>>

BatchInit == VerifierIdle /\ ProcessorIdle

BatchNext ==
  \/ paraphrase_batch
  \/ \E i \in 1..Len(task) : paraphrase_with_semaphore(i)
  \/ \E i \in 1..Len(task) : Completion(i)
  \/ \E i \in 1..Len(task) : Retry(i)
  \/ \E i \in 1..Len(task) : ApiError(i)
  \/ Gathered

BatchSpec == BatchInit /\ [][BatchNext]_vars

(***************************************************************************)
(* RateLimiter.acquire, called by coroutines of one event loop.  The body  *)
(* runs under the limiter's lock, which it keeps while it sleeps.          *)
(***************************************************************************)
MaxRequests == 2
MaxTime == 60
Delays == {10, 30}

\* Time passes while no coroutine is in asyncio.sleep (a sleeper's wake-up
\* moves the clock itself).
Tick ==
  /\ \A c \in Callers : caller[c].pc # "sleeping"
  /\ \E d \in Delays : now + d <= MaxTime /\ now' = now + d
  /\ UNCHANGED <<lock, caller, granted, ratelimiter, generator, paraphraser, verifier>>

\* A coroutine calls acquire() and queues at the lock.
Arrive(c) ==
  /\ caller[c].pc = "idle"
  /\ caller' = [caller EXCEPT ![c] = Caller("waiting", 0, 0, 0)]
  /\ lock' = Append(lock, c)
  /\ UNCHANGED <<now, granted, ratelimiter, generator, paraphraser, verifier>>

\* The grant that ends the body: self.requests.append(now), lock released.
Grant(c, reqs, oldest) ==
  /\ requests' = Append(reqs, now')
  /\ granted' = Append(granted, now')
  /\ caller' = [caller EXCEPT ![c] = Caller("granted", caller[c].wake, oldest, now')]
  /\ lock' = Tail(lock)

\* The coroutine at the head of the lock runs the body up to its sleep, or
\* to its end when the window has room.
acquire(c) ==
  /\ lock # << >> /\ Head(lock) = c
  /\ caller[c].pc = "waiting"
  /\ \E reqs \in {Recent(requests, now)} :
       IF Len(reqs) >= max_requests /\ sleep_time(reqs, now) > 0
       THEN /\ caller' = [caller EXCEPT ![c] =
                            Caller("sleeping", now + sleep_time(reqs, now), reqs[1], 0)]
            /\ requests' = reqs
            /\ UNCHANGED <<now, lock, granted>>
       ELSE /\ UNCHANGED now
            /\ Grant(c, reqs, -1)
  /\ UNCHANGED <<max_requests, generator, paraphraser, verifier>>

\* asyncio.sleep returns, at the wake-up time or late; the body filters
\* the list again and ends.
Wake(c) ==
  /\ caller[c].pc = "sleeping"
  /\ \E late \in {0, 1} : now' = caller[c].wake + late
  /\ Grant(c, Recent(requests, now'), caller[c].oldest)
  /\ UNCHANGED <<max_requests, generator, paraphraser, verifier>>

LimiterInit ==
  /\ VerifierIdle
  /\ ParaphraserIdle
  /\ EventLoopIdle
  /\ max_requests \in 1..MaxRequests
  /\ requests = << >>
  /\ GeneratorIdle

LimiterNext ==
  \/ Tick
  \/ \E c \in Callers : Arrive(c)
  \/ \E c \in Callers : acquire(c)
  \/ \E c \in Callers : Wake(c)

LimiterSpec == LimiterInit /\ [][LimiterNext]_vars

\* The event loop runs every coroutine that is ready: the head of the lock
\* enters the body, and a sleep ends.
LimiterLive ==
  /\ LimiterSpec
  /\ WF_vars(\E c \in Callers : acquire(c))
  /\ WF_vars(\E c \in Callers : Wake(c))

(***************************************************************************)
(* EmbeddingGenerator._rate_limit, called by coroutines of one event loop: *)
(* a counter of the requests of the current window, reset when a call      *)
(* finds the window a minute old.                                          *)
(***************************************************************************)
\* The end of the body: self.requests_made += 1, lock released.
Proceed(c, made, oldest) ==
  /\ requests_made' = made + 1
  /\ granted' = Append(granted, now')
  /\ caller' = [caller EXCEPT ![c] = Caller("granted", caller[c].wake, oldest, now')]
  /\ lock' = Tail(lock)

\* The coroutine at the head of the lock runs the body up to its sleep, or
\* to its end when the counter is below the limit.
_rate_limit(c) ==
  /\ lock # << >> /\ Head(lock) = c
  /\ caller[c].pc = "waiting"
  /\ \E reset \in {now - window_start >= Window} :
     \E start \in {IF reset THEN now ELSE window_start} :
     \E made \in {IF reset THEN 0 ELSE requests_made} :
       IF made >= max_requests_per_minute /\ Window - (now - start) + 1 > 0
       THEN /\ caller' = [caller EXCEPT ![c] =
                            Caller("sleeping", now + Window - (now - start) + 1, start, 0)]
            /\ requests_made' = made
            /\ window_start' = start
            /\ UNCHANGED <<now, lock, granted>>
       ELSE /\ UNCHANGED now
            /\ window_start' = start
            /\ Proceed(c, made, -1)
  /\ UNCHANGED <<max_requests_per_minute, ratelimiter, paraphraser, verifier>>

\* asyncio.sleep returns, at the wake-up time or late; the counter is reset
\* and the window restarts.
Resume(c) ==
  /\ caller[c].pc = "sleeping"
  /\ \E late \in {0, 1} : now' = caller[c].wake + late
  /\ window_start' = now'
  /\ Proceed(c, 0, caller[c].oldest)
  /\ UNCHANGED <<max_requests_per_minute, ratelimiter, paraphraser, verifier>>

GeneratorInit ==
  /\ VerifierIdle
  /\ ParaphraserIdle
  /\ EventLoopIdle
  /\ RateLimiterIdle
  /\ max_requests_per_minute \in 1..MaxRequests
  /\ requests_made = 0
  /\ window_start = 0

GeneratorNext ==
  \/ Tick
  \/ \E c \in Callers : Arrive(c)
  \/ \E c \in Callers : _rate_limit(c)
  \/ \E c \in Callers : Resume(c)

GeneratorSpec == GeneratorInit /\ [][GeneratorNext]_vars

(***************************************************************************)
(* Properties                                                              *)
(***************************************************************************)
Engines ==
  {"derivative_equivalent", "integral_equivalent", "limit_equal", "algebra_equiv",
   "dimensional_check", "numeric_probe"}
EngineReturned == phase = "returned" /\ call.fn \in Engines
ParserReturned == phase = "returned" /\ call.fn = "_safe_parse"
HasKey(k) == k \in DOMAIN result.details
StartsWith(str1, prefix) == Len(str1) >= Len(prefix) /\ SubSeq(str1, 1, Len(prefix)) = prefix

\* float() raised at some point visited by the per-point loop.
PerPointRaise ==
  \E i \in 1..Len(evals) : evals[i].computed_val.k = "TypeError"
                           \/ evals[i].expected_val.k = "TypeError"

\* C1: no exception escapes an engine, and whenever a step of the call
\* raised (a step of the try block, or float() at a test point) the engine
\* returns outcome false with an error string in details.
C1_NoExceptionEscapes ==
  EngineReturned =>
    /\ ~result.raised
    /\ (result.exc # "" \/ PerPointRaise) => (~result.outcome /\ HasKey("error"))

\* The expression operands of a request, in the order the engine parses them.
Operands(c) ==
  IF c.fn \in {"derivative_equivalent", "integral_equivalent"} THEN <<c.expr, c.expected>>
  ELSE IF c.fn = "algebra_equiv" THEN <<c.lhs, c.rhs>>
  ELSE IF c.fn = "limit_equal" /\ c.to.ty = "str" THEN <<c.expr, c.to.s>>
  ELSE <<c.expr>>

ParseFails(text) == parse_expr(text).t # "expr" \/ _safe_parse(text).st = "raise"
ComputeOps == {"diff", "integrate", "limit", "simplify", "sample", "eval"}

\* C2: every expression operand goes through the safe parser before any
\* symbolic computation or sampling, and if the parser fails on an operand
\* the engine returns outcome false with a non-empty details.error and does
\* no differentiation, integration, limit, simplification, sampling or
\* numeric evaluation.
C2_ParseBeforeCompute ==
  EngineReturned =>
    /\ \A i, j \in 1..Len(ops) : (ops[i] = "parse" /\ ops[j] \in ComputeOps) => i < j
    /\ (\E k \in 1..Len(Operands(call)) : ParseFails(Operands(call)[k])) =>
         /\ ~result.raised
         /\ ~result.outcome
         /\ HasKey("error")
         /\ result.details.error # ""
         /\ \A i \in 1..Len(ops) : ops[i] \notin ComputeOps

\* The text calls a name that is not in the allowlist.
InvokesDisallowedFunction(text) ==
  \E i \in 1..(Len(Tokens(text, 1)) - 1) :
    /\ Tokens(text, 1)[i].ty = "NAME"
    /\ Tokens(text, 1)[i].s \notin SAFE_FUNCTIONS
    /\ Tokens(text, 1)[i + 1] = Tok("OP", "(")

\* The text joins names with @ or . (x@y, x.y): no identifier.
UsesNonIdentifierSymbol(text) ==
  \E i \in 2..(Len(Tokens(text, 1)) - 1) :
    /\ Tokens(text, 1)[i] \in {Tok("OP", "@"), Tok("OP", ".")}
    /\ Tokens(text, 1)[i - 1].ty = "NAME"
    /\ Tokens(text, 1)[i + 1].ty = "NAME"

\* C3: for text that invokes a function outside the allowlist _safe_parse
\* raises with an "Unsafe function" message, for text that uses a
\* non-identifier symbol it raises with an "Unsafe symbol" message; it
\* returns no expression for either.
C3_UnsafeTextRejected ==
  ParserReturned =>
    /\ InvokesDisallowedFunction(call.expr_str) =>
         (result.st = "raise" /\ Contains(result.msg, "Unsafe function"))
    /\ (UsesNonIdentifierSymbol(call.expr_str) /\ ~InvokesDisallowedFunction(call.expr_str)) =>
         (result.st = "raise" /\ Contains(result.msg, "Unsafe symbol"))

MalformedOnly(text) ==
  /\ parse_expr(text).t = "raise"
  /\ parse_expr(text).exc = "SyntaxError"
  /\ ~InvokesDisallowedFunction(text)
  /\ ~UsesNonIdentifierSymbol(text)

UnsafeCategory(msg) == StartsWith(msg, "Unsafe function") \/ StartsWith(msg, "Unsafe symbol")
ParseFailureCategory(msg) == StartsWith(msg, "Failed to parse")

\* The allowlist audit of the try block rejected what parse_expr returned.
AuditRejected(text) ==
  /\ parse_expr(text).t = "expr"
  /\ SafeParseTry(text).t = "raise"

\* C5: malformed text that is no security violation is reported as a parse
\* failure, the unsafe-input category is reported only for text that uses
\* a disallowed function or a non-identifier symbol, and a rejection raised
\* by the allowlist audit reaches the caller under its own message.
C5_ParseFailureDistinguished ==
  ParserReturned =>
    /\ MalformedOnly(call.expr_str) =>
         (result.st = "raise" /\ ParseFailureCategory(result.msg))
    /\ (result.st = "raise" /\ UnsafeCategory(result.msg)) =>
         (InvokesDisallowedFunction(call.expr_str) \/ UsesNonIdentifierSymbol(call.expr_str))
    /\ AuditRejected(call.expr_str) =>
         (result.st = "raise" /\ result.msg = SafeParseTry(call.expr_str).msg)

FallbackEngines == {"derivative_equivalent", "integral_equivalent", "algebra_equiv"}

\* The symbolic test was inconclusive: the engine went on to the symbols
\* or the samples of the numeric fallback.
Inconclusive == \E i \in 1..Len(ops) : ops[i] \in {"symbols", "sample"}

HasFreeSymbols(c) ==
  c.fn = "algebra_equiv" =>
    free_symbols(_safe_parse(c.lhs).e) \cup free_symbols(_safe_parse(c.rhs).e) # {}

BothEvaluated(pass) ==
  /\ pass.computed_val.k \notin {"TypeError", "none"}
  /\ pass.expected_val.k \notin {"TypeError", "none"}

\* C6: when the symbolic test is inconclusive the engine samples 10 points
\* and returns equivalent = numerical_match = true exactly when every point
\* it evaluated has |computed - expected| <= tolerance; points whose
\* evaluation raised are skipped.
C6_NumericFallback ==
  (EngineReturned /\ call.fn \in FallbackEngines /\ Inconclusive /\ HasFreeSymbols(call)) =>
    /\ ~result.raised
    /\ Len(points) = 10
    /\ HasKey("numerical_match")
    /\ HasKey("symbolic_match")
    /\ ~result.details.symbolic_match
    /\ result.outcome = result.details.numerical_match
    /\ result.outcome =
         (\A i \in 1..Len(evals) :
            BothEvaluated(evals[i]) =>
              AbsDiffWithin(evals[i].computed_val, evals[i].expected_val, call.tolerance))

\* The derivatives of the polynomials of the catalogue, by hand.
Derivatives == [p \in {"x^2", "x^3 - 2*x"} |-> IF p = "x^2" THEN "2*x" ELSE "3*x^2 - 2"]

PolynomialIn(text, x) ==
  /\ _safe_parse(text).st = "ok"
  /\ IsLaurent(expand(_safe_parse(text).e), x)
  /\ \A k \in XExps(expand(_safe_parse(text).e), x) : k >= 0

\* q - p' for a derivative_equivalent request on a polynomial p.
DerivativeGap(c) ==
  expand(Sub(_safe_parse(c.expected).e, _safe_parse(Derivatives[c.expr]).e))

PolynomialRequest ==
  /\ EngineReturned
  /\ call.fn = "derivative_equivalent"
  /\ call.var = "x"
  /\ call.expr \in DOMAIN Derivatives
  /\ PolynomialIn(call.expected, "x")

\* |q - p'| at the test point v exceeds the tolerance.
GapExceeds(c, v) ==
  RGtTol(RAbs(NumVal(subs(DerivativeGap(c), [n \in {"x"} |-> v]))), c.tolerance)

\* C7 as stated: for a polynomial p in x, equivalent=true when q is the
\* derivative of p, and equivalent=false when q - p' has a term of degree
\* one or more with nonzero coefficient.
C7_DerivativeDecided ==
  PolynomialRequest =>
    /\ ~result.raised
    /\ (DerivativeGap(call) = EZero) => result.outcome
    /\ (\E k \in XExps(DerivativeGap(call), "x") : k >= 1) => ~result.outcome

\* C7 amended: equivalent=true when q is the derivative of p; when it is
\* not, equivalent=false exactly when one of the 10 sampled test points
\* has |q - p'| > tolerance.
C7_DerivativeDecidedOnSamples ==
  PolynomialRequest =>
    /\ ~result.raised
    /\ (DerivativeGap(call) = EZero) => result.outcome
    /\ (DerivativeGap(call) # EZero) =>
         /\ Len(points) = 10
         /\ ~result.outcome = (\E i \in 1..Len(points) : GapExceeds(call, points[i]))

\* A q that differs from p' by a term of degree one or more was accepted:
\* all 10 samples were within the tolerance.
C7_Witness ==
  /\ PolynomialRequest
  /\ DerivativeGap(call) # EZero
  /\ \E k \in XExps(DerivativeGap(call), "x") : k >= 1
  /\ result.outcome
  /\ Len(points) = 10

\* The antiderivatives, with zero additive term, of the integrands of the
\* catalogue, by hand.
Antiderivatives ==
  [f \in {"2*x + 2", "2*x"} |-> IF f = "2*x" THEN "x^2" ELSE "x^2 + 2*x"]

IntegralRequest ==
  /\ EngineReturned
  /\ call.fn = "integral_equivalent"
  /\ call.var = "x"
  /\ call.expr \in DOMAIN Antiderivatives
  /\ _safe_parse(call.expected).st = "ok"

\* F minus the antiderivative of f.
IntegralGap(c) ==
  expand(Sub(_safe_parse(c.expected).e, _safe_parse(Antiderivatives[c.expr]).e))

\* C8: with constant_free=true the engine accepts every F that is an
\* antiderivative of f plus a term without x, in whatever form it is
\* written; with constant_free=false it accepts F only when F equals the
\* engine's own antiderivative.
C8_IntegralUpToConstant ==
  IntegralRequest =>
    /\ (call.constant_free /\ "x" \notin free_symbols(IntegralGap(call))) =>
         (~result.raised /\ result.outcome)
    /\ (~call.constant_free /\ IntegralGap(call) # EZero) => ~result.outcome

\* The limit point of a limit_equal request, as the engine builds it.
LimitPoint(c) == IF c.to.ty = "str" THEN _safe_parse(c.to.s) ELSE SPOk(ENum(c.to.v))

LimitRequest ==
  /\ EngineReturned
  /\ call.fn = "limit_equal"
  /\ _safe_parse(call.expr).st = "ok"
  /\ LimitPoint(call).st = "ok"

\* The limit from side dir of a request's expression at its point.
SideLimit(c, dir) == limit(_safe_parse(c.expr).e, c.var, LimitPoint(c).e, dir)

SidesDiffer(c) ==
  /\ SideLimit(c, "-").t = "expr"
  /\ SideLimit(c, "+").t = "expr"
  /\ SideLimit(c, "-").e # SideLimit(c, "+").e

\* C9: for direction 'both', whenever the left-sided and the right-sided
\* limit differ the engine returns equivalent=false with
\* details.limit_exists=false, whatever the default limit call returned;
\* both one-sided limits are computed unless the default one is nan.
C9_BothSidesCompared ==
  (LimitRequest /\ call.direction = "both" /\ SidesDiffer(call)) =>
    /\ ~result.raised
    /\ ~result.outcome
    /\ HasKey("limit_exists")
    /\ ~result.details.limit_exists
    /\ (SideLimit(call, "+").e # ESpecial("nan")) =>
         Cardinality({i \in 1..Len(ops) : ops[i] = "limit"}) = 3

\* 1/x at 0, direction 'both': the default call returned oo and the
\* engine reported that the one-sided limits differ.
C9_Witness ==
  /\ LimitRequest
  /\ call.direction = "both"
  /\ SidesDiffer(call)
  /\ SideLimit(call, "+").e = ESpecial("oo")
  /\ HasKey("error")
  /\ result.details.error = "Left and right limits differ"

\* The limit the engine computes for the request's direction.
ComputedLimit(c) == SideLimit(c, IF c.direction = "left" THEN "-" ELSE "+")

NotFinite == {ESpecial("oo"), ESpecial("-oo"), ESpecial("nan"), ESpecial("zoo")}

\* C10: for every direction, a computed limit of +infinity, -infinity, nan
\* or complex infinity never yields equivalent=true or details.finite=true.
C10_OnlyFiniteLimitsAccepted ==
  (LimitRequest /\ ComputedLimit(call).t = "expr" /\ ComputedLimit(call).e \in NotFinite) =>
    /\ ~result.raised
    /\ ~result.outcome
    /\ ~(HasKey("finite") /\ result.details.finite)

Infinities == {ESpecial("oo"), ESpecial("-oo")}

\* The request's direction is one of the three the engine documents.
DirectedRequest == LimitRequest /\ call.direction \in {"left", "right", "both"}

\* The sides the direction asks for agree (one side for 'left'/'right').
SidesAgree(c) ==
  /\ ComputedLimit(c).t = "expr"
  /\ c.direction = "both" =>
       /\ SideLimit(c, "-").t = "expr"
       /\ SideLimit(c, "-").e = SideLimit(c, "+").e

\* C11: an infinite limit (one side, or both sides agreeing on the same
\* infinity) is reported as equivalent=false, limit_exists=true,
\* finite=false; a finite limit as equivalent=true, limit_exists=true,
\* finite=true; and a limit that does not exist (nan, or sides that differ)
\* is reported as such, without a finite entry, even when the default limit
\* call returned an infinity.
C11_InfiniteLimitReported ==
  DirectedRequest =>
    /\ (SidesAgree(call) /\ ComputedLimit(call).e \in Infinities) =>
         /\ ~result.raised /\ ~result.outcome
         /\ HasKey("limit_exists") /\ result.details.limit_exists
         /\ HasKey("finite") /\ ~result.details.finite
    /\ (SidesAgree(call) /\ ComputedLimit(call).e.sp = "none") =>
         /\ ~result.raised /\ result.outcome
         /\ HasKey("limit_exists") /\ result.details.limit_exists
         /\ HasKey("finite") /\ result.details.finite
    /\ ((call.direction = "both" /\ SidesDiffer(call))
        \/ (ComputedLimit(call).t = "expr" /\ ComputedLimit(call).e = ESpecial("nan"))) =>
         /\ ~result.raised /\ ~result.outcome
         /\ HasKey("limit_exists") /\ ~result.details.limit_exists
         /\ ~HasKey("finite")

\* A one-sided limit of 1/x at 0 was reported as existing and not finite.
C11_Witness ==
  /\ DirectedRequest
  /\ call.direction \in {"left", "right"}
  /\ call.expr = "1/x"
  /\ ComputedLimit(call).t = "expr"
  /\ ComputedLimit(call).e \in Infinities
  /\ HasKey("finite")
  /\ ~result.details.finite

AlgebraRequest ==
  /\ EngineReturned
  /\ call.fn = "algebra_equiv"
  /\ _safe_parse(call.lhs).st = "ok"
  /\ _safe_parse(call.rhs).st = "ok"

\* The free symbols of both operands of an algebra_equiv request.
UnionSymbols(c) ==
  free_symbols(_safe_parse(c.lhs).e) \cup free_symbols(_safe_parse(c.rhs).e)

\* The two simplified forms are within tolerance under assignment env.
WithinAt(c, env) ==
  AbsDiffWithin(float(subs(simplify(_safe_parse(c.lhs).e), env)),
                float(subs(simplify(_safe_parse(c.rhs).e), env)), c.tolerance)

\* C12: when algebra_equiv cannot prove its operands symbolically equal it
\* returns the numeric verdict, never an error result: with free symbols
\* it samples 10 assignments over the union of the symbols of both
\* operands, without free symbols it compares the two constants within
\* tolerance and draws nothing.
C12_AlgebraFallback ==
  (AlgebraRequest /\ Inconclusive) =>
    /\ ~result.raised
    /\ ~HasKey("error")
    /\ HasKey("symbolic_match") /\ ~result.details.symbolic_match
    /\ HasKey("numerical_match") /\ result.details.numerical_match = result.outcome
    /\ (UnionSymbols(call) # {}) =>
         /\ Len(points) = 10
         /\ \A i \in 1..Len(points) : DOMAIN points[i] = UnionSymbols(call)
    /\ (UnionSymbols(call) = {}) =>
         /\ points = << >>
         /\ result.outcome = WithinAt(call, << >>)

ProbeRequest ==
  /\ EngineReturned
  /\ call.fn = "numeric_probe"
  /\ _safe_parse(call.expr).st = "ok"

\* C13: for a constant expression numeric_probe returns valid=true exactly
\* when the expression evaluates to a finite real; then constant_value is
\* that number and points_tested is 0; no test point is drawn either way.
C13_ConstantProbe ==
  (ProbeRequest /\ free_symbols(_safe_parse(call.expr).e) = {}) =>
    /\ ~result.raised
    /\ points = << >>
    /\ result.outcome = (float(_safe_parse(call.expr).e).k = "ok")
    /\ result.outcome =>
         /\ HasKey("constant_value")
         /\ result.details.constant_value = float(_safe_parse(call.expr).e)
         /\ result.details.points_tested = 0

\* The probed expression evaluates to a finite real under assignment env.
FiniteAt(c, env) == float(subs(_safe_parse(c.expr).e, env)).k = "ok"

DimensionalRequest ==
  /\ EngineReturned
  /\ call.fn = "dimensional_check"
  /\ _safe_parse(call.expr).st = "ok"

\* C15: the verdict of dimensional_check does not depend on expected_unit:
\* a call differing only in the expected_unit string returns the same
\* equivalent, and equivalent always equals details.has_units, which tells
\* whether the printed expression contains one of the unit tokens.
C15_UnitIndependent ==
  DimensionalRequest =>
    /\ ~result.raised
    /\ \A u \in UnitTexts :
         dimensional_check(call.expr, u).result.outcome = result.outcome
    /\ HasKey("has_units")
    /\ result.outcome = result.details.has_units
    /\ result.outcome =
         (\E i \in 1..Len(unit_patterns) :
            Contains(str(_safe_parse(call.expr).e), unit_patterns[i]))

Endpoints ==
  {"verify_derivative", "verify_integral", "verify_limit", "verify_algebra",
   "verify_dimensional", "verify_numeric_probe"}

\* C16: an endpoint answers with status 200 and exactly the record its
\* engine produced, engine-reported failures included; it never answers
\* with an HTTP error and never fails to answer.
C16_FacadePassThrough ==
  (phase = "returned" /\ call.fn \in Endpoints) =>
    /\ ~result.raised
    /\ response.status = 200
    /\ response.body = [outcome |-> result.outcome, details |-> result.details]

\* The operands of request c parse and the difference of the two forms the
\* engine compares simplifies to zero.
ComparedForms(c) ==
  IF c.fn = "derivative_equivalent" THEN
    <<simplify(diff(_safe_parse(c.expr).e, c.var)), simplify(_safe_parse(c.expected).e)>>
  ELSE IF c.fn = "integral_equivalent" THEN
    IF c.constant_free THEN
      <<simplify(_remove_constants(integrate(_safe_parse(c.expr).e, c.var), c.var)),
        simplify(_remove_constants(_safe_parse(c.expected).e, c.var))>>
    ELSE <<simplify(integrate(_safe_parse(c.expr).e, c.var)),
           simplify(_safe_parse(c.expected).e)>>
  ELSE <<simplify(_safe_parse(c.lhs).e), simplify(_safe_parse(c.rhs).e)>>

CollapsesToZero(c) ==
  /\ c.fn \in FallbackEngines
  /\ \A k \in 1..Len(Operands(c)) : _safe_parse(Operands(c)[k]).st = "ok"
  /\ simplify(Sub(ComparedForms(c)[1], ComparedForms(c)[2])) = EZero

\* C17: in derivative_equivalent, integral_equivalent and algebra_equiv,
\* when the difference of the two simplified forms simplifies to zero the
\* call returns equivalent=true with symbolic_match=true and
\* numerical_match=true, draws no test point and leaves the state of the
\* random generator as it was before the call.
C17_SymbolicMatchDrawsNothing ==
  [][(phase = "idle" /\ phase' = "returned" /\ CollapsesToZero(call')) =>
       /\ ~result'.raised
       /\ result'.outcome
       /\ "symbolic_match" \in DOMAIN result'.details
       /\ result'.details.symbolic_match
       /\ result'.details.numerical_match
       /\ points' = << >>
       /\ \A i \in 1..Len(ops') : ops'[i] # "sample"
       /\ rng' = rng]_vars

\* A symbolic match was returned although the process-wide generator
\* would have handed out differing values.
C17_Witness ==
  /\ EngineReturned
  /\ CollapsesToZero(call)
  /\ result.outcome
  /\ HasKey("symbolic_match")
  /\ result.details.symbolic_match
  /\ rng[1] # rng[2]

SamplerInvoked == \E i \in 1..Len(ops) : ops[i] = "sample"

\* The number of assignments the engine asks its sampler for.
RequestedCount(c) == IF c.fn = "numeric_probe" THEN c.num_points ELSE NumTestPoints

\* The symbols the multi-symbol sampler is asked to give values to.
RequestedSymbols(c) ==
  IF c.fn = "numeric_probe" THEN free_symbols(_safe_parse(c.expr).e)
  ELSE UnionSymbols(c)

InSampleRange(v) == RLeq(RInt(-10), v) /\ RLeq(v, RInt(10))

\* C19: both samplers return exactly the number of assignments they are
\* asked for, each giving every requested symbol a value in [-10, 10]; the
\* single-symbol sampler does so whatever expression it is handed.
C19_SamplersReturnCount ==
  (EngineReturned /\ SamplerInvoked) =>
    /\ Len(points) = RequestedCount(call)
    /\ \A i \in 1..Len(points) :
         IF call.fn \in {"algebra_equiv", "numeric_probe"}
         THEN /\ DOMAIN points[i] = RequestedSymbols(call)
              /\ \A n \in DOMAIN points[i] : InSampleRange(points[i][n])
         ELSE InSampleRange(points[i])

IngestionReturned == phase = "returned" /\ call.fn = "_run_ingestion"

\* The constructors and methods of the paraphraser, the embedding
\* generator and the database client.
ExternalOps ==
  {"ContentParaphraser", "paraphrase_batch", "EmbeddingGenerator",
   "generate_batch_embeddings", "SupabaseIO", "_prepare_document_record",
   "_prepare_embedding_record", "batch_upsert_documents_with_embeddings"}

\* C20: a dry run of _run_ingestion, whatever keys it is given, neither
\* constructs nor invokes the paraphraser, the embedding generator or the
\* database client, and upserts no record.
C20_DryRunMakesNoExternalCall ==
  (IngestionReturned /\ call.dry_run) =>
    /\ ~result.raised
    /\ \A i \in 1..Len(ops) : ops[i] \notin ExternalOps
    /\ ("upserted" \in DOMAIN result.details) => result.details.upserted = 0

\* A dry run with every key supplied went through ingestion and tagging
\* and displayed its results.
C20_Witness ==
  /\ IngestionReturned
  /\ call.dry_run
  /\ Truthy(call.openai_key) /\ Truthy(call.supabase_url) /\ Truthy(call.supabase_key)
  /\ Len(call.segments) = 2
  /\ ops = <<"PDFIngester", "load_pdf", "APCalculusTagger", "tag_content",
             "tag_content", "_display_results">>
  /\ result.details.skipped = 2

\* C21: once paraphrase_batch has returned, its list holds one
\* ParaphraseResult per input text, in input order, whatever the order in
\* which the coroutines ran and whichever service calls failed; a text that
\* was skipped or whose service call failed is marked skipped and carries
\* its original text as the paraphrase.
BatchReturned == batch.pc = "returned"
IsParaphraseResult(res) ==
  DOMAIN res = {"original_text", "paraphrased_text", "skipped", "reason", "token_count"}
C21_BatchOneResultPerText ==
  BatchReturned =>
    /\ Len(processed) = Len(batch.texts)
    /\ \A i \in 1..Len(processed) :
         /\ IsParaphraseResult(processed[i])
         /\ processed[i].original_text = batch.texts[i]
         /\ (_should_skip_paraphrase(batch.texts[i]).should_skip \/ task[i].pc = "failed")
              => processed[i].skipped /\ processed[i].paraphrased_text = batch.texts[i]

\* A batch of three texts returned under a semaphore of one: the first text
\* was paraphrased, the second skipped, the third failed after its retries.
C21_Witness ==
  /\ BatchReturned
  /\ batch.max_concurrent = 1
  /\ Len(batch.texts) = 3
  /\ task[1].pc = "paraphrased" /\ ~processed[1].skipped
  /\ task[2].pc = "skipped"
  /\ task[3].pc = "failed" /\ task[3].attempt = MaxAttempts

\* C22: the calls a RateLimiter let through never number more than
\* max_requests within 60 seconds; a caller that found the window full was
\* let through only when the oldest recorded grant was more than 60 seconds
\* old; and every caller that waits at the limiter is eventually let through.
GrantsWithin(t) == Cardinality({k \in 1..Len(granted) : t <= granted[k] /\ granted[k] < t + Window})
WindowRespected == \A k \in 1..Len(granted) : GrantsWithin(granted[k]) <= max_requests
Delayed(c) == caller[c].pc = "granted" /\ caller[c].oldest >= 0
DelayedPastWindow == \A c \in Callers : Delayed(c) => caller[c].at - caller[c].oldest > Window
C22_SlidingWindowLimit ==
  /\ [](WindowRespected /\ DelayedPastWindow)
  /\ \A c \in Callers : (caller[c].pc = "waiting") ~> (caller[c].pc = "granted")

\* Three callers went through a limiter of two requests per minute; one of
\* them found the window full and was delayed.
C22_Witness ==
  /\ max_requests = 2
  /\ Len(granted) = 3
  /\ \E c \in Callers : Delayed(c)
  /\ granted[3] - granted[1] > Window
  /\ granted[2] - granted[1] < Window

\* C23: upsert_document_with_embedding attempts the embedding upsert only
\* after the document upsert succeeded, and a call that returns
\* success=false leaves neither the document nor the embedding stored.
UpsertReturned == phase = "returned" /\ call.fn = "upsert_document_with_embedding"
EmbeddingAttempted == \E i \in 1..Len(ops) : ops[i] = "upsert_embedding"
C23_UpsertIsTransaction ==
  UpsertReturned =>
    /\ EmbeddingAttempted => call.doc_outcome = "data"
    /\ ~result.outcome =>
         /\ call.document.id \notin result.details.db.kb_document
         /\ call.embedding.id \notin result.details.db.kb_embedding

\* C24: in the numeric fallback of derivative_equivalent,
\* integral_equivalent and algebra_equiv, a test point at which the
\* evaluation raised is skipped: the loop goes on to the remaining points
\* (it ends early only at a point that failed the comparison) and the call
\* does not return an error result.
RaisedAt(pass) == pass.computed_val.k = "TypeError" \/ pass.expected_val.k = "TypeError"
C24_PointFailureSkipped ==
  (EngineReturned /\ call.fn \in FallbackEngines /\ PerPointRaise) =>
    /\ ~result.raised
    /\ result.exc = ""
    /\ ~HasKey("error")
    /\ HasKey("numerical_match")
    /\ \A i \in 1..Len(evals) : RaisedAt(evals[i]) => evals[i].verdict = "skip"
    /\ Len(evals) < Len(points) => evals[Len(evals)].verdict = "fail"

\* The evaluation raised at one test point and the loop compared the two
\* values at a later one.
C24_Witness ==
  /\ EngineReturned
  /\ call.fn \in FallbackEngines
  /\ \E i \in 1..Len(evals) : \E j \in (i + 1)..Len(evals) :
       RaisedAt(evals[i]) /\ evals[j].verdict = "pass"
  /\ Len(evals) = Len(points)

\* The stated policy of constant stripping: of a sum, the summands whose
\* free symbols include var (zero if there is none); of another expression,
\* the expression if it contains var and zero otherwise.
Stripped(E, var) ==
  IF IsAdd(E)
  THEN IF \E t \in E.terms : var \in free_symbols(ETerm(t))
       THEN [sp |-> "none", terms |-> {t \in E.terms : var \in free_symbols(ETerm(t))}]
       ELSE EZero
  ELSE IF var \in free_symbols(E) THEN E ELSE EZero

\* What integral_equivalent is to compare: both sides stripped when
\* constant_free is set, both as they are otherwise.
Cleaned(E, var, constant_free) == str(simplify(IF constant_free THEN Stripped(E, var) ELSE E))

CompletedIntegral ==
  /\ EngineReturned
  /\ call.fn = "integral_equivalent"
  /\ HasKey("computed_clean")

\* C25: _remove_constants follows the stated policy, and integral_equivalent
\* applies it to both the computed antiderivative and the expected value
\* before they are simplified and compared when constant_free is true, and to
\* neither when it is false.
C25_ConstantStripping ==
  CompletedIntegral =>
    /\ result.details.computed_clean =
         Cleaned(integrate(_safe_parse(call.expr).e, call.var), call.var, call.constant_free)
    /\ result.details.expected_clean =
         Cleaned(_safe_parse(call.expected).e, call.var, call.constant_free)

\* With constant_free set, an expected value with an additive constant was
\* stripped of it and accepted.
C25_Witness ==
  /\ CompletedIntegral
  /\ call.constant_free
  /\ IsAdd(_safe_parse(call.expected).e)
  /\ result.details.expected_clean # result.details.expected
  /\ result.details.expected_clean = result.details.computed_clean
  /\ result.outcome

\* The text calls a name, and every name it calls is in the allowlist.
CallsOnlyAllowlisted(text) ==
  /\ \E i \in 1..(Len(Tokens(text, 1)) - 1) :
       Tokens(text, 1)[i].ty = "NAME" /\ Tokens(text, 1)[i + 1] = Tok("OP", "(")
  /\ ~InvokesDisallowedFunction(text)

\* The text is a valid expression whose symbols are identifiers.
ValidExpression(text) ==
  /\ parse_expr(text).t = "expr"
  /\ \A n \in SymbolAtoms(parse_expr(text).e) : SAFE_SYMBOL_PATTERN(n)

\* C26: _safe_parse rejects a function only if its name is absent from the
\* allowlist: a valid expression whose functions are all named by the
\* allowlist is accepted and returned.
C26_AllowlistedFunctionsAccepted ==
  (ParserReturned /\ ValidExpression(call.expr_str) /\ CallsOnlyAllowlisted(call.expr_str)) =>
    /\ result.st = "ok"
    /\ result.e = parse_expr(call.expr_str).e

\* The expected answer differs from the result by a term in a symbol other
\* than var.
OtherSymbolTerm(gap, var) == free_symbols(gap) \ {var} # {}

\* C27: derivative_equivalent and integral_equivalent return
\* equivalent=false when the expected answer differs from the computed
\* result by a nonzero term in a free symbol other than var.
C27_SecondSymbolRejected ==
  /\ (EngineReturned /\ call.fn = "derivative_equivalent" /\ call.var = "x"
        /\ call.expr \in DOMAIN Derivatives /\ _safe_parse(call.expected).st = "ok"
        /\ OtherSymbolTerm(DerivativeGap(call), "x"))
       => (~result.raised /\ ~result.outcome)
  /\ (IntegralRequest /\ ~call.constant_free /\ OtherSymbolTerm(IntegralGap(call), "x"))
       => (~result.raised /\ ~result.outcome)

\* C28: limit_equal cross-checks the two one-sided limits for every request
\* that is not explicitly one-sided: a direction other than 'left' or
\* 'right' is handled like 'both' and never yields limit_exists=true at a
\* point where the one-sided limits differ.
C28_EveryTwoSidedRequestCrossChecked ==
  (LimitRequest /\ call.direction \notin {"left", "right"} /\ SidesDiffer(call)) =>
    /\ ~result.raised
    /\ ~result.outcome
    /\ HasKey("limit_exists")
    /\ ~result.details.limit_exists

\* C29: EmbeddingGenerator._rate_limit never lets more than
\* max_requests_per_minute requests proceed within 60 seconds, whatever the
\* arrival times and the order of the callers, the reset of the counting
\* window included.
C29_EmbeddingRateLimit ==
  \A k \in 1..Len(granted) : GrantsWithin(granted[k]) <= max_requests_per_minute

\* A live run: the embedding generator and the database client were used.
LiveRun ==
  /\ IngestionReturned
  /\ Len(call.segments) > 0
  /\ UsesOpenAI(call.dry_run, call.openai_key)
  /\ UsesSupabase(call.dry_run, call.supabase_url, call.supabase_key)

\* C30: in a live run of _run_ingestion in which the embedding of a segment
\* failed, the run completes, every segment whose embedding succeeded is
\* upserted and each upserted embedding belongs to the document of the same
\* segment.
C30_FailedEmbeddingDoesNotAbort ==
  (LiveRun /\ call.embedded # 1..Len(call.segments)) =>
    /\ ~result.raised
    /\ \A i \in call.embedded :
         \E k \in 1..Len(result.details.upsert_results) :
           /\ result.details.upsert_results[k].success
           /\ result.details.upsert_results[k].document_id = <<"doc", i>>
           /\ result.details.upsert_results[k].embedding_id = <<"emb", i>>

=============================================================================
